---- MODULE Spec2Model ----
(***************************************************************************)
(* A model of the extent-based filesystem of os_lab_5: the allocation map, *)
(* the node and its extent array, the directory, the transaction (a block  *)
(* cache over the storage device), format/mount, and the kernel's system   *)
(* calls.  Arrays are functions over 0..n-1, as the code indexes them.     *)
(*                                                                         *)
(* Scaling.  A block holds BLOCK_SIZE cells (the code: 512 bytes).  A cell  *)
(* holds one allocation flag, one byte of file data, or one field of a     *)
(* directory entry or of the superblock; a node-table block holds          *)
(* NODES_PER_BLOCK node records.  usize arithmetic is modulo USIZE_MOD     *)
(* (the code: 2^64).                                                       *)
(***************************************************************************)
EXTENDS Integers, Sequences, FiniteSets, TLC

VARIABLES
    storage,     \* Kernel.storage: block index -> block
    fs,          \* Kernel.fs: Option<Filesystem> (superblock, block_map, node_map)
    open_files,  \* Kernel.open_files: descriptor -> (node_index, offset)
    curr_dir,    \* Kernel.curr_dir
    last,        \* the last system call, its arguments and what it returned
    halted,      \* the process aborted (a panic unwound out of main)
    wrap,        \* build profile: TRUE = overflow wraps (release), FALSE = overflow panics (debug)
    steps,       \* how many system calls were made
    tx_changes   \* Transaction.changes of a transaction held open: block index -> staged block

vars == <<storage, fs, open_files, curr_dir, last, halted, wrap, steps, tx_changes>>

----------------------------------------------------------------------------
\* Program constants.

ROOT_INDEX == 1
EXTENTS_PER_NODE == 15
NODES_PER_BLOCK == 2
FT_FILE == 0
FT_DIR == 1
FREE == 0
USED == 1

\* Bounds of the model.

BLOCK_SIZE == 6
BlockCount == 12
NodeCount == 4
USIZE_MOD == 1048576

----------------------------------------------------------------------------
\* Arrays.

Len0(a) == Cardinality(DOMAIN a)
Min(a, b) == IF a < b THEN a ELSE b
\* The one element of a set of one: The({e(x) : x \in {v}}) is e(v).
The(S) == CHOOSE v \in S : TRUE

CeilDiv(a, b) == (a + b - 1) \div b
Zeros(n) == [i \in 0..(n - 1) |-> 0]
\* a[from..to), re-indexed from 0
Slice(a, from, to) == [i \in 0..(to - from - 1) |-> a[from + i]]

RECURSIVE SumTo(_, _)
SumTo(f, n) == IF n = 0 THEN 0 ELSE f[n - 1] + SumTo(f, n - 1)

----------------------------------------------------------------------------
\* alloc_map.rs

NoSpan == [some |-> FALSE, start |-> 0, end |-> 0]

NewMap(count) == [i \in 0..(count - 1) |-> FREE]

RECURSIVE FindFreeWalk(_, _, _, _)
FindFreeWalk(flags, i, start, count) ==
    IF i >= Len0(flags) THEN NoSpan
    ELSE IF flags[i] = USED THEN FindFreeWalk(flags, i + 1, i + 1, count)
    ELSE IF (i + 1) - start = count THEN [some |-> TRUE, start |-> start, end |-> i + 1]
    ELSE FindFreeWalk(flags, i + 1, start, count)

FindFree(flags, count) ==
    IF count = 0 THEN NoSpan ELSE FindFreeWalk(flags, 0, 0, count)

FillSpan(flags, s, e, v) ==
    [i \in DOMAIN flags |-> IF s <= i /\ i < e THEN v ELSE flags[i]]

\* An allocate that marks the first flag of the span only.
Allocate_FirstFlagOnly(flags, count) ==
    LET span == FindFree(flags, count) IN
    IF ~span.some
    THEN [st |-> "OutOfSpace", flags |-> flags, start |-> 0, end |-> 0]
    ELSE [st |-> "ok", flags |-> FillSpan(flags, span.start, span.start + 1, USED),
          start |-> span.start, end |-> span.end]

Allocate(flags, count) ==
    LET span == FindFree(flags, count) IN
    IF ~span.some
    THEN [st |-> "OutOfSpace", flags |-> flags, start |-> 0, end |-> 0]
    ELSE [st |-> "ok", flags |-> FillSpan(flags, span.start, span.end, USED),
          start |-> span.start, end |-> span.end]

AllocateAt(flags, index) ==
    IF index >= Len0(flags) THEN [st |-> "IndexOutOfBounds", flags |-> flags]
    ELSE IF flags[index] = USED THEN [st |-> "ObjectOccupied", flags |-> flags]
    ELSE [st |-> "ok", flags |-> [flags EXCEPT ![index] = USED]]

AllocateSpan(flags, s, e) ==
    IF ~(s < e) THEN [st |-> "panic", flags |-> flags]
    ELSE IF e > Len0(flags) THEN [st |-> "IndexOutOfBounds", flags |-> flags]
    ELSE IF \E i \in s..(e - 1) : flags[i] = USED
    THEN [st |-> "ObjectOccupied", flags |-> flags]
    ELSE [st |-> "ok", flags |-> FillSpan(flags, s, e, USED)]

FreeSpan(flags, s, e) ==
    IF ~(s < e) THEN [st |-> "panic", flags |-> flags]
    ELSE IF e > Len0(flags) THEN [st |-> "IndexOutOfBounds", flags |-> flags]
    ELSE [st |-> "ok", flags |-> FillSpan(flags, s, e, FREE)]

----------------------------------------------------------------------------
\* node.rs

NullExtent == [start |-> 0, end |-> 0]
IsNull(e) == e.start = 0 /\ e.end = 0
IsHole(e) == e.start = 0 /\ e.end > 0
IsMapped(e) == e.start > 0

\* Extent::len is end - start on usize: it panics on overflow in a debug build
\* and wraps in a release build.
LenPanics(e) == ~wrap /\ e.end < e.start
ExtentLen(e) == (e.end - e.start + USIZE_MOD) % USIZE_MOD

Shrink(e, length) == [e EXCEPT !.end = length]

DefaultNode ==
    [size |-> 0, link_count |-> 0, filetype |-> FT_FILE,
     extents |-> [i \in 0..(EXTENTS_PER_NODE - 1) |-> NullExtent]]

NewNode(filetype) == [DefaultNode EXCEPT !.filetype = filetype]

NoBlock == [st |-> "ok", some |-> FALSE, v |-> 0]

RECURSIVE WalkPhysical(_, _, _)
WalkPhysical(extents, i, offset) ==
    IF i >= EXTENTS_PER_NODE \/ IsNull(extents[i]) THEN NoBlock
    ELSE IF LenPanics(extents[i]) THEN [st |-> "panic", some |-> FALSE, v |-> 0]
    ELSE IF ExtentLen(extents[i]) > offset
    THEN IF IsHole(extents[i]) THEN NoBlock
         ELSE [st |-> "ok", some |-> TRUE, v |-> (extents[i].start + offset) % USIZE_MOD]
    ELSE WalkPhysical(extents, i + 1, offset - ExtentLen(extents[i]))

GetPhysicalBlock(node, logic_block) == WalkPhysical(node.extents, 0, logic_block)

GetLogicalBlockFromOffset(byte_offset) == byte_offset \div BLOCK_SIZE

GetPhysicalBlockFromOffset(node, byte_offset) ==
    GetPhysicalBlock(node, GetLogicalBlockFromOffset(byte_offset))

\* Node::block_count: the sum of end - start over every non-null extent.
NodeBlockCount(node) ==
    LET live == {i \in DOMAIN node.extents : ~IsNull(node.extents[i])}
        lens == [i \in 0..(EXTENTS_PER_NODE - 1) |->
                    IF i \in live THEN ExtentLen(node.extents[i]) ELSE 0]
    IN IF \E i \in live : LenPanics(node.extents[i])
       THEN [st |-> "panic", v |-> 0]
       ELSE [st |-> "ok", v |-> SumTo(lens, EXTENTS_PER_NODE) % USIZE_MOD]

\* The position of the last non-null extent (rposition); the caller knows one exists.
LastNonNull(extents) ==
    CHOOSE i \in DOMAIN extents :
        /\ ~IsNull(extents[i])
        /\ \A j \in DOMAIN extents : j > i => IsNull(extents[j])

\* A split that leaves out the hole behind the mapped block.
SplitPieces_NoRightHole(offset, blocks_in_curr, phys_block) ==
    LET left == [start |-> 0, end |-> offset]
        mid == [start |-> phys_block, end |-> phys_block + 1]
    IN IF IsNull(left) THEN <<mid>> ELSE <<left, mid>>

\* The split of a hole of blocks_in_curr blocks at offset: the non-null ones of
\* [left hole, mapped block, right hole].
SplitPieces(offset, blocks_in_curr, phys_block) ==
    LET left == [start |-> 0, end |-> offset]
        mid == [start |-> phys_block, end |-> phys_block + 1]
        right == [start |-> 0, end |-> blocks_in_curr - offset - 1]
    IN IF IsNull(left) /\ IsNull(right) THEN <<mid>>
       ELSE IF IsNull(left) THEN <<mid, right>>
       ELSE IF IsNull(right) THEN <<left, mid>>
       ELSE <<left, mid, right>>

RECURSIVE MapBlockWalk(_, _, _, _)
MapBlockWalk(ex, curr, offset, phys_block) ==
    IF curr >= EXTENTS_PER_NODE THEN [st |-> "OutOfExtents", extents |-> ex]
    ELSE IF IsNull(ex[curr]) THEN
        LET merged ==
                IF curr > 0 /\ ~IsHole(ex[curr - 1]) /\ offset = 0
                   /\ ex[curr - 1].end = phys_block
                THEN [ex EXCEPT ![curr - 1].end = @ + 1]
                ELSE ex
        IN IF offset = 0
           THEN [st |-> "ok",
                 extents |-> [merged EXCEPT ![curr] =
                                 [start |-> phys_block, end |-> phys_block + 1]]]
           ELSE IF curr + 1 >= EXTENTS_PER_NODE
           THEN [st |-> "OutOfExtents", extents |-> merged]
           ELSE [st |-> "ok",
                 extents |-> [merged EXCEPT
                                 ![curr].end = offset,
                                 ![curr + 1] = [start |-> phys_block, end |-> phys_block + 1]]]
    ELSE IF LenPanics(ex[curr]) THEN [st |-> "panic", extents |-> ex]
    ELSE IF offset < ExtentLen(ex[curr]) THEN
        IF ~IsHole(ex[curr]) THEN [st |-> "AlreadyMapped", extents |-> ex]
        ELSE
            LET pieces == SplitPieces(offset, ExtentLen(ex[curr]), phys_block)
                extra == Len(pieces) - 1
                lastx == LastNonNull(ex)
            IN IF lastx + extra > EXTENTS_PER_NODE - 1
               THEN [st |-> "OutOfExtents", extents |-> ex]
               ELSE [st |-> "ok",
                     extents |->
                        [i \in DOMAIN ex |->
                            IF i < curr THEN ex[i]
                            ELSE IF i <= curr + extra THEN pieces[i - curr + 1]
                            ELSE IF i <= lastx + extra THEN ex[i - extra]
                            ELSE ex[i]]]
    ELSE MapBlockWalk(ex, curr + 1, offset - ExtentLen(ex[curr]), phys_block)

\* A map_block that does not write the hole in front of a block that it maps
\* beyond the extents of the node.
MapBlock_HoleUnwritten(node, logic_block, phys_block) ==
    IF phys_block = 0 THEN [st |-> "panic", node |-> node]
    ELSE LET r == MapBlockWalk(node.extents, 0, logic_block, phys_block)
         IN [st |-> r.st,
             node |-> [node EXCEPT !.extents =
                          [i \in DOMAIN r.extents |->
                              IF IsNull(node.extents[i]) /\ IsHole(r.extents[i])
                              THEN NullExtent ELSE r.extents[i]]]]

MapBlock(node, logic_block, phys_block) ==
    IF phys_block = 0 THEN [st |-> "panic", node |-> node]
    ELSE LET r == MapBlockWalk(node.extents, 0, logic_block, phys_block)
         IN [st |-> r.st, node |-> [node EXCEPT !.extents = r.extents]]

RECURSIVE AppendHoleWalk(_, _, _)
AppendHoleWalk(ex, i, count) ==
    IF i >= EXTENTS_PER_NODE THEN [st |-> "OutOfExtents", extents |-> ex]
    ELSE IF IsNull(ex[i]) THEN
        IF i > 0 /\ IsHole(ex[i - 1])
        THEN [st |-> "ok", extents |-> [ex EXCEPT ![i - 1].end = @ + count]]
        ELSE [st |-> "ok", extents |-> [ex EXCEPT ![i].end = count]]
    ELSE AppendHoleWalk(ex, i + 1, count)

AppendHole(node, count) ==
    IF count = 0 THEN [st |-> "panic", node |-> node]
    ELSE LET r == AppendHoleWalk(node.extents, 0, count)
         IN [st |-> r.st, node |-> [node EXCEPT !.extents = r.extents]]

----------------------------------------------------------------------------
\* directory.rs.  A directory is an array of entries; on the device an entry is
\* DIRENT_SIZE cells: filetype, node_index, name.  Names are codes:
\* 0 is the all-zero name "", then ".", "..", and the names the calls use.

DIRENT_SIZE == 3
NAME_EMPTY == 0
NAME_DOT == 1
NAME_DOTDOT == 2
\* A string that holds a '/': as a DirEntryName it equals no entry's name, since
\* split_path never yields a name that holds a '/'.
NAME_WITH_SLASH == 9

DirEntryNew(node_index, filetype, name) ==
    [filetype |-> filetype, node_index |-> node_index, name |-> name]

EntryIsNull(e) == e.node_index = 0

Push(a, x) == [i \in 0..Len0(a) |-> IF i < Len0(a) THEN a[i] ELSE x]

AddEntry(dir, entry) ==
    IF \E i \in DOMAIN dir : EntryIsNull(dir[i])
    THEN LET v == CHOOSE i \in DOMAIN dir :
                    /\ EntryIsNull(dir[i])
                    /\ \A j \in DOMAIN dir : j < i => ~EntryIsNull(dir[j])
         IN [dir EXCEPT ![v] = entry]
    ELSE Push(dir, entry)

DirNew(index, parent_index) ==
    AddEntry(AddEntry(<<>>, DirEntryNew(index, FT_DIR, NAME_DOT)),
             DirEntryNew(parent_index, FT_DIR, NAME_DOTDOT))

EntryMatches(e, name) == e.name = name /\ ~EntryIsNull(e)

HasEntry(dir, name) == \E i \in DOMAIN dir : EntryMatches(dir[i], name)

\* The position of the first entry that matches; the caller knows one exists.
EntryPos(dir, name) ==
    CHOOSE i \in DOMAIN dir :
        /\ EntryMatches(dir[i], name)
        /\ \A j \in DOMAIN dir : j < i => ~EntryMatches(dir[j], name)

GetEntry(dir, name) == dir[EntryPos(dir, name)]

RemoveEntry(dir, name) ==
    IF ~HasEntry(dir, name)
    THEN [st |-> "EntryNotFound", dir |-> dir, node_index |-> 0]
    ELSE [st |-> "ok", dir |-> [dir EXCEPT ![EntryPos(dir, name)].node_index = 0],
          node_index |-> GetEntry(dir, name).node_index]

\* An is_empty that never finds an entry.
DirIsEmpty_Always(dir) == TRUE

DirIsEmpty(dir) == Cardinality({i \in DOMAIN dir : ~EntryIsNull(dir[i])}) = 2

\* Dir::as_slice().as_bytes()
DirAsBytes(dir) ==
    [k \in 0..(Len0(dir) * DIRENT_SIZE - 1) |->
        LET e == dir[k \div DIRENT_SIZE] IN
        CASE k % DIRENT_SIZE = 0 -> e.filetype
          [] k % DIRENT_SIZE = 1 -> e.node_index
          [] OTHER -> e.name]

\* <[DirEntry]>::try_ref_from_bytes: the length is a multiple of the entry size and
\* every filetype cell holds a FileType.
BytesAreDir(bytes) ==
    /\ Len0(bytes) % DIRENT_SIZE = 0
    /\ \A k \in DOMAIN bytes : k % DIRENT_SIZE = 0 => bytes[k] \in {FT_FILE, FT_DIR}

DirFromBytes(bytes) ==
    [i \in 0..((Len0(bytes) \div DIRENT_SIZE) - 1) |->
        [filetype |-> bytes[i * DIRENT_SIZE],
         node_index |-> bytes[i * DIRENT_SIZE + 1],
         name |-> bytes[i * DIRENT_SIZE + 2]]]

----------------------------------------------------------------------------
\* Blocks.  A block holds BLOCK_SIZE cells, or (in the node table) NODES_PER_BLOCK
\* node records; the all-zero block is both: zeroed bytes read as default nodes.

CellBlock(cells) == [k |-> "cells", c |-> cells]
IsZeroBlock(b) == b.k = "cells" /\ b.c = Zeros(BLOCK_SIZE)
DefaultNodes == [i \in 0..(NODES_PER_BLOCK - 1) |-> DefaultNode]
NodeBlock(nodes) ==
    IF nodes = DefaultNodes THEN CellBlock(Zeros(BLOCK_SIZE)) ELSE [k |-> "nodes", c |-> nodes]
HoldsNodes(b) == b.k = "nodes" \/ IsZeroBlock(b)
NodesOf(b) == IF b.k = "nodes" THEN b.c ELSE DefaultNodes
HoldsCells(b) == b.k = "cells"

\* Block::new(chunk): the chunk, zero-padded to a block.
BlockNew(chunk) ==
    CellBlock([i \in 0..(BLOCK_SIZE - 1) |-> IF i < Len0(chunk) THEN chunk[i] ELSE 0])

\* Storage::new: a zeroed device.
StorageNew == [i \in 0..(BlockCount - 1) |-> CellBlock(Zeros(BLOCK_SIZE))]

\* Superblock::new: the layout of section 6 of the specification.
SuperblockNew(block_count, node_count) ==
    LET bmo == 1
        nmo == bmo + CeilDiv(block_count, BLOCK_SIZE)
        nto == nmo + CeilDiv(node_count, BLOCK_SIZE)
    IN [block_count |-> block_count, node_count |-> node_count,
        block_map_offset |-> bmo, node_map_offset |-> nmo,
        node_table_offset |-> nto,
        data_offset |-> nto + CeilDiv(node_count, NODES_PER_BLOCK)]

\* Superblock::read_from_bytes: the six fields, in the order of the record.
SuperblockFromBytes(cells) ==
    [block_count |-> cells[0], node_count |-> cells[1],
     block_map_offset |-> cells[2], node_map_offset |-> cells[3],
     node_table_offset |-> cells[4], data_offset |-> cells[5]]

----------------------------------------------------------------------------
\* transaction.rs.  A transaction borrows the filesystem (its superblock and the
\* two allocation maps, which it changes in place) and the storage, and owns the
\* staged blocks.  Every operation returns st = "ok", the name of the error it
\* returns, or "panic"; "corrupt" stands for a block read as a type it was not
\* written as, with content the model does not decode.

TxNew(f, stor) ==
    [superblock |-> f.superblock, block_map |-> f.block_map, node_map |-> f.node_map,
     storage |-> stor, changes |-> <<>>]

\* Storage::write_block
StorageWriteBlock(stor, block_index, block) == [stor EXCEPT ![block_index] = block]

\* A write_block that writes the block to the device instead of staging it.
WriteBlock_WriteThrough(tx, block_index, block) ==
    [tx EXCEPT !.storage = StorageWriteBlock(tx.storage, block_index, block)]

\* Transaction::_write_block / write_block
WriteBlock(tx, block_index, block) ==
    [tx EXCEPT !.changes =
        [i \in (DOMAIN tx.changes) \cup {block_index} |->
            IF i = block_index THEN block ELSE tx.changes[i]]]

\* A read_block that looks at the device only.
ReadBlock_DeviceOnly(tx, block_index) ==
    IF block_index \in DOMAIN tx.storage
    THEN [st |-> "ok", block |-> tx.storage[block_index]]
    ELSE [st |-> "BlockIndexOutOfBounds", block |-> CellBlock(Zeros(BLOCK_SIZE))]

\* Transaction::_read_block / read_block
ReadBlock(tx, block_index) ==
    IF block_index \in DOMAIN tx.changes
    THEN [st |-> "ok", block |-> tx.changes[block_index]]
    ELSE IF block_index \in DOMAIN tx.storage
    THEN [st |-> "ok", block |-> tx.storage[block_index]]
    ELSE [st |-> "BlockIndexOutOfBounds", block |-> CellBlock(Zeros(BLOCK_SIZE))]

\* A _sync_map that stages every block of the map, changed or not.
RECURSIVE SyncMapFrom_Always(_, _, _, _)
SyncMapFrom_Always(tx, map, map_offset, i) ==
    IF i * BLOCK_SIZE >= Len0(map) THEN [st |-> "ok", tx |-> tx]
    ELSE SyncMapFrom_Always(
             WriteBlock(tx, map_offset + i,
                        BlockNew(Slice(map, i * BLOCK_SIZE,
                                       Min((i + 1) * BLOCK_SIZE, Len0(map))))),
             map, map_offset, i + 1)

\* Transaction::_sync_map, from chunk i on.
RECURSIVE SyncMapFrom(_, _, _, _)
SyncMapFrom(tx, map, map_offset, i) ==
    IF i * BLOCK_SIZE >= Len0(map) THEN [st |-> "ok", tx |-> tx]
    ELSE LET chunk == Slice(map, i * BLOCK_SIZE, Min((i + 1) * BLOCK_SIZE, Len0(map)))
             block_mem == BlockNew(chunk)
             stored == ReadBlock(tx, map_offset + i)
         IN IF stored.st # "ok" THEN [st |-> "panic", tx |-> tx]
            ELSE IF ~HoldsCells(stored.block) \/ block_mem.c # stored.block.c
            THEN SyncMapFrom(WriteBlock(tx, map_offset + i, block_mem), map, map_offset, i + 1)
            ELSE SyncMapFrom(tx, map, map_offset, i + 1)

SyncMap(tx, map, map_offset) == SyncMapFrom(tx, map, map_offset, 0)

SyncMaps(tx) ==
    The({ IF a.st # "ok" THEN a
          ELSE SyncMap(a.tx, a.tx.node_map, a.tx.superblock.node_map_offset) :
          a \in {SyncMap(tx, tx.block_map, tx.superblock.block_map_offset)} })

\* A flush in descending block index.
RECURSIVE Flush_Descending(_, _, _)
Flush_Descending(stor, changes, todo) ==
    IF todo = {} THEN [st |-> "ok", storage |-> stor]
    ELSE LET block_index == CHOOSE i \in todo : \A j \in todo : i >= j
         IN IF block_index \notin DOMAIN stor THEN [st |-> "panic", storage |-> stor]
            ELSE Flush_Descending(StorageWriteBlock(stor, block_index, changes[block_index]),
                                  changes, todo \ {block_index})

\* The flush of commit: every staged block, in ascending block index.
RECURSIVE Flush(_, _, _)
Flush(stor, changes, todo) ==
    IF todo = {} THEN [st |-> "ok", storage |-> stor]
    ELSE LET block_index == CHOOSE i \in todo : \A j \in todo : i <= j
         IN IF block_index \notin DOMAIN stor THEN [st |-> "panic", storage |-> stor]
            ELSE Flush(StorageWriteBlock(stor, block_index, changes[block_index]),
                       changes, todo \ {block_index})

Commit(tx) ==
    The({ IF s.st # "ok" THEN [st |-> "panic", storage |-> tx.storage]
          ELSE Flush(s.tx.storage, s.tx.changes, DOMAIN s.tx.changes) :
          s \in {SyncMaps(tx)} })

GetNodeBlockIndex(tx, node_index) ==
    tx.superblock.node_table_offset + (node_index \div NODES_PER_BLOCK)

GetNodeSlot(node_index) == node_index % NODES_PER_BLOCK

ReadNode(tx, node_index) ==
    IF ~(node_index < tx.superblock.node_count)
    THEN [st |-> "NodeIndexOutOfBounds", node |-> DefaultNode]
    ELSE The({ IF b.st # "ok" THEN [st |-> b.st, node |-> DefaultNode]
               ELSE IF ~HoldsNodes(b.block) THEN [st |-> "corrupt", node |-> DefaultNode]
               ELSE [st |-> "ok", node |-> NodesOf(b.block)[GetNodeSlot(node_index)]] :
               b \in {ReadBlock(tx, GetNodeBlockIndex(tx, node_index))} })

WriteNode(tx, node_index, node) ==
    IF ~(node_index < tx.superblock.node_count)
    THEN [st |-> "NodeIndexOutOfBounds", tx |-> tx]
    ELSE The({ IF b.st # "ok" THEN [st |-> b.st, tx |-> tx]
               ELSE IF ~HoldsNodes(b.block) THEN [st |-> "corrupt", tx |-> tx]
               ELSE [st |-> "ok",
                     tx |-> WriteBlock(tx, GetNodeBlockIndex(tx, node_index),
                               NodeBlock([NodesOf(b.block) EXCEPT
                                             ![GetNodeSlot(node_index)] = node]))] :
               b \in {ReadBlock(tx, GetNodeBlockIndex(tx, node_index))} })

CreateNode(tx, filetype) ==
    The({ IF a.st # "ok"
          THEN [st |-> a.st, tx |-> tx, node |-> NewNode(filetype), node_index |-> 0]
          ELSE The({ [st |-> w.st, tx |-> w.tx, node |-> NewNode(filetype),
                      node_index |-> a.start] :
                     w \in {WriteNode([tx EXCEPT !.node_map = a.flags], a.start,
                                      NewNode(filetype))} }) :
          a \in {Allocate(tx.node_map, 1)} })

\* The loop of read_file_at; buf holds the bytes read so far.
RECURSIVE ReadLoop(_, _, _, _, _)
ReadLoop(tx, node, offset, bytes_to_read, buf) ==
    IF Len0(buf) = bytes_to_read THEN [st |-> "ok", n |-> Len0(buf), data |-> buf]
    ELSE The({
        The({ IF pb.st # "ok" THEN [st |-> pb.st, n |-> 0, data |-> buf]
              ELSE IF ~pb.some
              THEN ReadLoop(tx, node, offset, bytes_to_read,
                       [i \in 0..(at.bytes_read + at.chunk_size - 1) |->
                           IF i < at.bytes_read THEN buf[i] ELSE 0])
              ELSE The({ IF b.st # "ok" THEN [st |-> b.st, n |-> 0, data |-> buf]
                         ELSE IF ~HoldsCells(b.block)
                         THEN [st |-> "corrupt", n |-> 0, data |-> buf]
                         ELSE ReadLoop(tx, node, offset, bytes_to_read,
                                  [i \in 0..(at.bytes_read + at.chunk_size - 1) |->
                                      IF i < at.bytes_read THEN buf[i]
                                      ELSE b.block.c[at.offset_in_block
                                                     + (i - at.bytes_read)]]) :
                         b \in {ReadBlock(tx, pb.v)} }) :
              pb \in {GetPhysicalBlockFromOffset(node, at.curr_pos)} }) :
        at \in {[bytes_read |-> Len0(buf),
                 curr_pos |-> offset + Len0(buf),
                 offset_in_block |-> (offset + Len0(buf)) % BLOCK_SIZE,
                 chunk_size |-> Min(BLOCK_SIZE - ((offset + Len0(buf)) % BLOCK_SIZE),
                                    bytes_to_read - Len0(buf))]} })

ReadFileAt(tx, node_index, offset, buf_len) ==
    The({ IF r.st # "ok" THEN [st |-> r.st, n |-> 0, data |-> <<>>]
          ELSE IF offset >= r.node.size THEN [st |-> "ok", n |-> 0, data |-> <<>>]
          ELSE ReadLoop(tx, r.node, offset, Min(r.node.size - offset, buf_len), <<>>) :
          r \in {ReadNode(tx, node_index)} })

\* One turn of the loop of write_file_at: the physical block of the logical block,
\* allocated and mapped when there is none.
WriteTarget(tx, node, logic_block) ==
    The({ IF pb.st # "ok"
          THEN [st |-> pb.st, tx |-> tx, node |-> node, phys |-> 0, has_alloc |-> FALSE]
          ELSE IF pb.some
          THEN [st |-> "ok", tx |-> tx, node |-> node, phys |-> pb.v, has_alloc |-> FALSE]
          ELSE The({
              IF a.st # "ok"
              THEN [st |-> a.st, tx |-> tx, node |-> node, phys |-> 0, has_alloc |-> FALSE]
              ELSE The({ IF m.st # "ok"
                         THEN [st |-> m.st, tx |-> [tx EXCEPT !.block_map = a.flags],
                               node |-> node, phys |-> 0, has_alloc |-> FALSE]
                         ELSE [st |-> "ok", tx |-> [tx EXCEPT !.block_map = a.flags],
                               node |-> m.node, phys |-> a.start, has_alloc |-> TRUE] :
                         m \in {MapBlock(node, logic_block, a.start)} }) :
              a \in {Allocate(tx.block_map, 1)} }) :
          pb \in {GetPhysicalBlock(node, logic_block)} })

RECURSIVE WriteLoop(_, _, _, _, _)
WriteLoop(tx, node, offset, data, bytes_written) ==
    IF bytes_written = Len0(data)
    THEN [st |-> "ok", tx |-> tx, node |-> node, n |-> bytes_written]
    ELSE The({
        The({ IF t.st # "ok" THEN [st |-> t.st, tx |-> t.tx, node |-> node, n |-> 0]
              ELSE The({
                  IF b.st # "ok" THEN [st |-> b.st, tx |-> t.tx, node |-> node, n |-> 0]
                  ELSE IF ~HoldsCells(b.block)
                  THEN [st |-> "corrupt", tx |-> t.tx, node |-> node, n |-> 0]
                  ELSE WriteLoop(
                          WriteBlock(t.tx, t.phys,
                              CellBlock([i \in 0..(BLOCK_SIZE - 1) |->
                                  IF /\ at.offset_in_block <= i
                                     /\ i < at.offset_in_block + at.chunk_size
                                  THEN data[bytes_written + (i - at.offset_in_block)]
                                  ELSE b.block.c[i]])),
                          t.node, offset, data, bytes_written + at.chunk_size) :
                  \* a freshly allocated block is not read
                  b \in {IF t.has_alloc
                         THEN [st |-> "ok", block |-> CellBlock(Zeros(BLOCK_SIZE))]
                         ELSE ReadBlock(t.tx, t.phys)} }) :
              t \in {WriteTarget(tx, node, GetLogicalBlockFromOffset(at.curr_pos))} }) :
        at \in {[curr_pos |-> offset + bytes_written,
                 offset_in_block |-> (offset + bytes_written) % BLOCK_SIZE,
                 chunk_size |-> Min(BLOCK_SIZE - ((offset + bytes_written) % BLOCK_SIZE),
                                    Len0(data) - bytes_written)]} })

\* A write_file_at without the test of the offset against the size.
WriteFileAt_AnyOffset(tx, node_index, offset, data) ==
    The({ IF r.st # "ok" THEN [st |-> r.st, tx |-> tx, n |-> 0]
          ELSE The({
              IF w.st # "ok" THEN [st |-> w.st, tx |-> w.tx, n |-> 0]
              ELSE IF offset + w.n > w.node.size
              THEN The({ [st |-> wn.st, tx |-> wn.tx, n |-> w.n] :
                         wn \in {WriteNode(w.tx, node_index,
                                           [w.node EXCEPT !.size = offset + w.n])} })
              ELSE [st |-> "ok", tx |-> w.tx, n |-> w.n] :
              w \in {WriteLoop(tx, r.node, offset, data, 0)} }) :
          r \in {ReadNode(tx, node_index)} })

WriteFileAt(tx, node_index, offset, data) ==
    The({ IF r.st # "ok" THEN [st |-> r.st, tx |-> tx, n |-> 0]
          ELSE IF offset > r.node.size THEN [st |-> "ok", tx |-> tx, n |-> 0]
          ELSE The({
              IF w.st # "ok" THEN [st |-> w.st, tx |-> w.tx, n |-> 0]
              ELSE IF offset + w.n > w.node.size
              THEN The({ [st |-> wn.st, tx |-> wn.tx, n |-> w.n] :
                         wn \in {WriteNode(w.tx, node_index,
                                           [w.node EXCEPT !.size = offset + w.n])} })
              ELSE [st |-> "ok", tx |-> w.tx, n |-> w.n] :
              w \in {WriteLoop(tx, r.node, offset, data, 0)} }) :
          r \in {ReadNode(tx, node_index)} })

\* The loop of truncate_file over the extents, from position i on.
RECURSIVE TruncateLoop(_, _, _, _, _)
TruncateLoop(block_map, ex, i, blocks_needed, blocks_passed) ==
    IF i >= EXTENTS_PER_NODE THEN [st |-> "ok", block_map |-> block_map, extents |-> ex]
    ELSE IF IsNull(ex[i]) THEN [st |-> "ok", block_map |-> block_map, extents |-> ex]
    ELSE IF LenPanics(ex[i]) THEN [st |-> "panic", block_map |-> block_map, extents |-> ex]
    ELSE The({
        IF blocks_passed >= blocks_needed
        THEN \* the extent is entirely beyond the size
             The({ IF f.st # "ok"
                   THEN [st |-> f.st, block_map |-> block_map, extents |-> ex]
                   ELSE TruncateLoop(f.flags, [ex EXCEPT ![i] = NullExtent], i + 1,
                                     blocks_needed, at.next_passed) :
                   f \in {FreeSpan(block_map, ex[i].start, ex[i].end)} })
        ELSE IF at.next_passed >= blocks_needed
        THEN \* the extent is partially needed
             The({ IF f.st # "ok"
                   THEN [st |-> f.st, block_map |-> block_map, extents |-> ex]
                   ELSE TruncateLoop(f.flags,
                                     [ex EXCEPT ![i] = Shrink(ex[i], at.blocks_keep)],
                                     i + 1, blocks_needed, at.next_passed) :
                   f \in {FreeSpan(block_map, ex[i].start + at.blocks_keep, ex[i].end)} })
        ELSE TruncateLoop(block_map, ex, i + 1, blocks_needed, at.next_passed) :
        at \in {[blocks_keep |-> blocks_needed - blocks_passed,
                 next_passed |-> (blocks_passed + ExtentLen(ex[i])) % USIZE_MOD]} })

TruncateFile(tx, node_index, size) ==
    The({ IF r.st # "ok" THEN [st |-> r.st, tx |-> tx]
          ELSE IF r.node.filetype # FT_FILE
          THEN [st |-> "FileTypeNotTruncateable", tx |-> tx]
          ELSE IF size >= r.node.size
          THEN WriteNode(tx, node_index, [r.node EXCEPT !.size = size])
          ELSE The({
              IF t.st # "ok" THEN [st |-> t.st, tx |-> [tx EXCEPT !.block_map = t.block_map]]
              ELSE WriteNode([tx EXCEPT !.block_map = t.block_map], node_index,
                             [r.node EXCEPT !.size = size, !.extents = t.extents]) :
              t \in {TruncateLoop(tx.block_map, r.node.extents, 0,
                                  CeilDiv(size, BLOCK_SIZE), 0)} }) :
          r \in {ReadNode(tx, node_index)} })

ReadDirectory(tx, node_index) ==
    The({ IF r.st # "ok" THEN [st |-> r.st, dir |-> <<>>]
          ELSE The({
              IF f.st # "ok" THEN [st |-> f.st, dir |-> <<>>]
              ELSE The({ IF ~BytesAreDir(buf) THEN [st |-> "panic", dir |-> <<>>]
                         ELSE [st |-> "ok", dir |-> DirFromBytes(buf)] :
                         \* buf is node.size zero bytes, overwritten by what was read
                         buf \in {[i \in 0..(r.node.size - 1) |->
                                     IF i < f.n THEN f.data[i] ELSE 0]} }) :
              f \in {ReadFileAt(tx, node_index, 0, r.node.size)} }) :
          r \in {ReadNode(tx, node_index)} })

WriteDirectory(tx, node_index, dir) ==
    The({ [st |-> w.st, tx |-> w.tx] : w \in {WriteFileAt(tx, node_index, 0, DirAsBytes(dir))} })

CreateFile(tx, parent_index, name, filetype) ==
    The({ IF c.st # "ok" THEN [st |-> c.st, tx |-> c.tx, node_index |-> 0]
          ELSE The({
              IF d.st # "ok" THEN [st |-> d.st, tx |-> c.tx, node_index |-> 0]
              ELSE The({
                  IF wd.st # "ok" THEN [st |-> wd.st, tx |-> wd.tx, node_index |-> 0]
                  ELSE The({ [st |-> wn.st, tx |-> wn.tx, node_index |-> c.node_index] :
                             wn \in {WriteNode(wd.tx, c.node_index,
                                               [c.node EXCEPT !.link_count = @ + 1])} }) :
                  wd \in {WriteDirectory(c.tx, parent_index,
                              AddEntry(d.dir, DirEntryNew(c.node_index, filetype, name)))} }) :
              d \in {ReadDirectory(c.tx, parent_index)} }) :
          c \in {CreateNode(tx, FT_FILE)} })

CreateDirectory(tx, parent_index, name) ==
    The({ IF c.st # "ok" THEN c
          ELSE The({ [st |-> w.st, tx |-> w.tx, node_index |-> c.node_index] :
                     w \in {WriteDirectory(c.tx, c.node_index,
                                           DirNew(c.node_index, parent_index))} }) :
          c \in {CreateFile(tx, parent_index, name, FT_DIR)} })

LinkFile(tx, parent_index, node_index, name) ==
    The({ IF r.st # "ok" THEN [st |-> r.st, tx |-> tx]
          ELSE IF r.node.filetype # FT_FILE THEN [st |-> "FileTypeNotLinkable", tx |-> tx]
          ELSE The({
              IF wn.st # "ok" THEN [st |-> wn.st, tx |-> wn.tx]
              ELSE The({
                  IF d.st # "ok" THEN [st |-> d.st, tx |-> wn.tx]
                  ELSE WriteDirectory(wn.tx, parent_index,
                           AddEntry(d.dir,
                                    DirEntryNew(node_index, r.node.filetype, name))) :
                  d \in {ReadDirectory(wn.tx, parent_index)} }) :
              wn \in {WriteNode(tx, node_index,
                                [r.node EXCEPT !.link_count = (@ + 1) % USIZE_MOD])} }) :
          r \in {ReadNode(tx, node_index)} })

\* The frees of delete_node over the extents before the first null one.
RECURSIVE FreeExtents(_, _, _)
FreeExtents(block_map, ex, i) ==
    IF i >= EXTENTS_PER_NODE THEN [st |-> "ok", flags |-> block_map]
    ELSE IF IsNull(ex[i]) THEN [st |-> "ok", flags |-> block_map]
    ELSE The({ IF f.st # "ok" THEN f ELSE FreeExtents(f.flags, ex, i + 1) :
               f \in {FreeSpan(block_map, ex[i].start, ex[i].end)} })

DeleteNode(tx, node_index) ==
    The({ IF r.st # "ok" THEN [st |-> r.st, tx |-> tx]
          ELSE The({
              IF fb.st # "ok" THEN [st |-> fb.st, tx |-> [tx EXCEPT !.block_map = fb.flags]]
              ELSE The({
                  IF fn.st # "ok"
                  THEN [st |-> fn.st, tx |-> [tx EXCEPT !.block_map = fb.flags]]
                  ELSE WriteNode([tx EXCEPT !.block_map = fb.flags, !.node_map = fn.flags],
                                 node_index, DefaultNode) :
                  fn \in {FreeSpan(tx.node_map, node_index, node_index + 1)} }) :
              fb \in {FreeExtents(tx.block_map, r.node.extents, 0)} }) :
          r \in {ReadNode(tx, node_index)} })

UnlinkFile(tx, parent_index, name, free) ==
    The({ IF d.st # "ok" THEN [st |-> d.st, tx |-> tx]
          ELSE IF ~HasEntry(d.dir, name) THEN [st |-> "FileNotFound", tx |-> tx]
          ELSE IF GetEntry(d.dir, name).filetype # FT_FILE
          THEN [st |-> "FileTypeNotLinkable", tx |-> tx]
          ELSE The({
              The({
                  IF wd.st # "ok" THEN [st |-> wd.st, tx |-> wd.tx]
                  ELSE The({
                      IF r.st # "ok" THEN [st |-> r.st, tx |-> wd.tx]
                      ELSE IF r.node.link_count = 0 /\ ~wrap
                      THEN [st |-> "panic", tx |-> wd.tx]
                      ELSE IF r.node.link_count = 1 /\ free
                      THEN DeleteNode(wd.tx, rm.node_index)
                      ELSE WriteNode(wd.tx, rm.node_index,
                               [r.node EXCEPT
                                   !.link_count = (@ - 1 + USIZE_MOD) % USIZE_MOD]) :
                      r \in {ReadNode(wd.tx, rm.node_index)} }) :
                  wd \in {WriteDirectory(tx, parent_index, rm.dir)} }) :
              rm \in {RemoveEntry(d.dir, name)} }) :
          d \in {ReadDirectory(tx, parent_index)} })

\* Transaction::find_node: the walk of the path's components from the root (an
\* absolute path) or from the current directory.
RECURSIVE FindNodeWalk(_, _, _, _)
FindNodeWalk(tx, node_index, comps, i) ==
    IF i > Len(comps) THEN [st |-> "ok", node_index |-> node_index]
    ELSE The({ IF d.st # "ok" THEN [st |-> d.st, node_index |-> 0]
               ELSE IF ~HasEntry(d.dir, comps[i])
               THEN [st |-> "FileNotFound", node_index |-> 0]
               ELSE FindNodeWalk(tx, GetEntry(d.dir, comps[i]).node_index, comps, i + 1) :
               d \in {ReadDirectory(tx, node_index)} })

FindNode(tx, path, cwd) ==
    FindNodeWalk(tx, IF path.abs THEN ROOT_INDEX ELSE cwd, path.comps, 1)

\* Transaction::remove_directory
RemoveDirectory(tx, parent_index, name) ==
    The({ IF d.st # "ok" THEN [st |-> d.st, tx |-> tx]
          ELSE IF ~HasEntry(d.dir, name) THEN [st |-> "FileNotFound", tx |-> tx]
          ELSE The({
              IF entry.filetype # FT_DIR THEN [st |-> "NotAnEmptyDirectory", tx |-> tx]
              ELSE The({
                  IF target.st # "ok" THEN [st |-> target.st, tx |-> tx]
                  ELSE IF ~DirIsEmpty(target.dir)
                  THEN [st |-> "NotAnEmptyDirectory", tx |-> tx]
                  ELSE The({ IF wd.st # "ok" THEN [st |-> wd.st, tx |-> wd.tx]
                             ELSE DeleteNode(wd.tx, entry.node_index) :
                             wd \in {WriteDirectory(tx, parent_index,
                                                    RemoveEntry(d.dir, name).dir)} }) :
                  target \in {ReadDirectory(tx, entry.node_index)} }) :
              entry \in {GetEntry(d.dir, name)} }) :
          d \in {ReadDirectory(tx, parent_index)} })

----------------------------------------------------------------------------
\* fs/mod.rs

ZeroSuperblock == SuperblockFromBytes(Zeros(BLOCK_SIZE))

NoFs == [some |-> FALSE, superblock |-> ZeroSuperblock, block_map |-> <<>>, node_map |-> <<>>]

Format(stor, block_count, node_count) ==
    The({
        IF at.bm.st # "ok" \/ at.nm.st # "ok"
        THEN [st |-> "panic", fs |-> NoFs, storage |-> stor]
        ELSE The({
            IF c.st # "ok" \/ c.node_index # ROOT_INDEX
            THEN [st |-> "panic", fs |-> NoFs, storage |-> stor]
            ELSE The({
                IF w.st # "ok" THEN [st |-> "panic", fs |-> NoFs, storage |-> stor]
                ELSE The({ IF k.st # "ok" THEN [st |-> "panic", fs |-> NoFs, storage |-> stor]
                           ELSE [st |-> "ok",
                                 fs |-> [some |-> TRUE, superblock |-> at.superblock,
                                         block_map |-> w.tx.block_map,
                                         node_map |-> w.tx.node_map],
                                 storage |-> k.storage] :
                           k \in {Commit(w.tx)} }) :
                w \in {WriteDirectory(c.tx, c.node_index,
                                      DirNew(c.node_index, c.node_index))} }) :
            c \in {CreateNode(TxNew([some |-> TRUE, superblock |-> at.superblock,
                                     block_map |-> at.bm.flags, node_map |-> at.nm.flags],
                                    stor),
                              FT_DIR)} }) :
        at \in {[superblock |-> SuperblockNew(block_count, node_count),
                 bm |-> AllocateSpan(NewMap(block_count), 0,
                                     SuperblockNew(block_count, node_count).data_offset),
                 nm |-> AllocateAt(NewMap(node_count), 0)]} })

\* FileSystem::read_map: the flags of blocks map_start..map_end, cut to count.
ReadMap(stor, map_start, map_end, count) ==
    LET n == IF map_end > map_start THEN map_end - map_start ELSE 0
        bytes == [i \in 0..(n * BLOCK_SIZE - 1) |->
                    stor[map_start + (i \div BLOCK_SIZE)].c[i % BLOCK_SIZE]]
    IN IF \E b \in map_start..(map_end - 1) : b \notin DOMAIN stor
       THEN [st |-> "panic", flags |-> <<>>]
       ELSE IF \E b \in map_start..(map_end - 1) : ~HoldsCells(stor[b])
       THEN [st |-> "corrupt", flags |-> <<>>]
       ELSE IF \E i \in DOMAIN bytes : bytes[i] \notin {FREE, USED}
       THEN [st |-> "panic", flags |-> <<>>]
       ELSE IF count > n * BLOCK_SIZE THEN [st |-> "panic", flags |-> <<>>]
       ELSE [st |-> "ok", flags |-> Slice(bytes, 0, count)]

Mount(stor) ==
    LET superblock == SuperblockFromBytes(stor[0].c)
        bm == ReadMap(stor, superblock.block_map_offset, superblock.node_map_offset,
                      superblock.block_count)
        nm == ReadMap(stor, superblock.node_map_offset, superblock.node_table_offset,
                      superblock.node_count)
    IN IF 0 \notin DOMAIN stor THEN [st |-> "panic", fs |-> NoFs]
       ELSE IF ~HoldsCells(stor[0]) THEN [st |-> "corrupt", fs |-> NoFs]
       ELSE IF bm.st # "ok" THEN [st |-> bm.st, fs |-> NoFs]
       ELSE IF nm.st # "ok" THEN [st |-> nm.st, fs |-> NoFs]
       ELSE [st |-> "ok",
             fs |-> [some |-> TRUE, superblock |-> superblock,
                     block_map |-> bm.flags, node_map |-> nm.flags]]

----------------------------------------------------------------------------
\* kernel/syscall.rs.  A path is whether it is absolute and its components:
\* "/" is absolute with none, "" is relative with none.

Path(abs, comps) == [abs |-> abs, comps |-> comps]
NoPath == Path(FALSE, <<>>)

EndsWithSlash(path) == path.abs /\ path.comps = <<>>

\* path.trim_end_matches('/')
TrimSlashes(path) == IF EndsWithSlash(path) THEN Path(FALSE, <<>>) ELSE path

SplitPath(path) ==
    LET n == Len(path.comps)
    IN IF n = 0 THEN [parent |-> IF path.abs THEN Path(TRUE, <<>>) ELSE Path(FALSE, <<NAME_DOT>>),
                      name |-> NAME_EMPTY]
       ELSE IF n = 1
       THEN [parent |-> IF path.abs THEN Path(TRUE, <<>>) ELSE Path(FALSE, <<NAME_DOT>>),
             name |-> path.comps[1]]
       ELSE [parent |-> Path(path.abs, SubSeq(path.comps, 1, n - 1)), name |-> path.comps[n]]

\* DirEntryName::try_from(path): the whole path string as an entry name.
PathAsName(path) ==
    IF path.abs \/ Len(path.comps) > 1 THEN NAME_WITH_SLASH
    ELSE IF path.comps = <<>> THEN NAME_EMPTY
    ELSE path.comps[1]

\* Kernel::find_free_fd
RECURSIVE FindFreeFdFrom(_, _)
FindFreeFdFrom(keys, fd) ==
    IF keys = {} THEN fd
    ELSE LET occupied_fd == CHOOSE k \in keys : \A j \in keys : k <= j
         IN IF fd < occupied_fd THEN fd
            ELSE FindFreeFdFrom(keys \ {occupied_fd}, occupied_fd + 1)

\* A find_free_fd that takes the number of open descriptions for a free descriptor.
FindFreeFd_Count(table) == Cardinality(DOMAIN table)

FindFreeFd(table) == FindFreeFdFrom(DOMAIN table, 0)

\* FileDescription::new
FileDescriptionNew(node_index) == [node_index |-> node_index, offset |-> 0]

\* The descriptor table of Kernel::new: no descriptor.
NoFiles == [fd \in {} |-> FileDescriptionNew(0)]

\* Kernel::open_file
OpenFile(table, desc) ==
    [fd \in (DOMAIN table) \cup {FindFreeFd(table)} |->
        IF fd = FindFreeFd(table) THEN desc ELSE table[fd]]

RemoveFd(table, fd) == [k \in (DOMAIN table) \ {fd} |-> table[k]]

IsOpened(table, node_index) == \E k \in DOMAIN table : table[k].node_index = node_index

\* FileStats::new
FileStatsNew(node_index, node) ==
    [node_index |-> node_index, filetype |-> node.filetype, link_count |-> node.link_count,
     size |-> node.size, block_count |-> NodeBlockCount(node).v]

NoStats == [node_index |-> 0, filetype |-> FT_FILE, link_count |-> 0, size |-> 0,
            block_count |-> 0]

\* What a call leaves in last: the call and its arguments (path, path2, fd, arg,
\* data), what it returned (st, n, out, stats, list), whether its transaction was
\* committed, how many blocks the transaction had staged when the call was done
\* with it, the node it worked on and the descriptor's offset before it.
Call(op) ==
    [op |-> op, st |-> "ok", committed |-> FALSE, path |-> NoPath, path2 |-> NoPath,
     fd |-> 0, arg |-> 0, data |-> <<>>, node |-> 0, off |-> 0, n |-> 0, out |-> <<>>,
     stats |-> NoStats, list |-> <<>>, staged |-> 0, flushed |-> 0]

Fatal == {"panic", "corrupt"}

\* How a call ends: with its transaction tx committed or dropped, what it returns,
\* and the descriptor table and the current directory it leaves.  A call that
\* returns before it opens a transaction ends as one that drops an empty one.
End(tx, commit, res, table, cwd) ==
    [tx |-> tx, commit |-> commit, res |-> res, table |-> table, cwd |-> cwd]

\* The end of a call: the allocation maps are the filesystem's own, so they keep
\* what the transaction did to them; the storage changes only by a commit; a panic
\* aborts the process, and one in the middle of a commit leaves on the device the
\* blocks flushed before it.  Flushed(call) is the number of blocks that the
\* commit of the call has to flush: the blocks staged when sync_maps has run.
Flushed(call) ==
    IF call.commit /\ call.res.st \notin Fatal
    THEN Cardinality(DOMAIN SyncMaps(call.tx).tx.changes)
    ELSE 0

Settle(call) ==
    \E c \in {IF call.commit THEN Commit(call.tx)
              ELSE [st |-> "ok", storage |-> call.tx.storage]} :
        IF call.res.st \in Fatal \/ c.st # "ok"
        THEN /\ halted' = TRUE
             /\ storage' = IF call.res.st \in Fatal THEN storage ELSE c.storage
             /\ last' = [call.res EXCEPT
                            !.st = IF call.res.st \in Fatal THEN call.res.st ELSE "panic",
                            !.committed = call.res.st \notin Fatal,
                            !.staged = Cardinality(DOMAIN call.tx.changes),
                            !.flushed = Flushed(call)]
             /\ UNCHANGED <<fs, open_files, curr_dir, wrap, tx_changes>>
        ELSE /\ storage' = c.storage
             /\ fs' = [fs EXCEPT !.block_map = call.tx.block_map,
                                 !.node_map = call.tx.node_map]
             /\ open_files' = call.table
             /\ curr_dir' = call.cwd
             /\ last' = [call.res EXCEPT !.committed = call.commit,
                                         !.staged = Cardinality(DOMAIN call.tx.changes),
                                         !.flushed = Flushed(call)]
             /\ UNCHANGED <<halted, wrap, tx_changes>>

Tx == TxNew(fs, storage)

\* The call returns the error st and drops tx.
Fail(tx, res, st) == End(tx, FALSE, [res EXCEPT !.st = st], open_files, curr_dir)

Create(path) ==
    LET res == [Call("create") EXCEPT !.path = path]
    IN /\ ~halted
       /\ Settle(
            IF EndsWithSlash(path) THEN Fail(Tx, res, "IsDir")
            ELSE IF ~fs.some THEN Fail(Tx, res, "FilesystemNotMounted")
            ELSE The({
                IF parent.st # "ok" THEN Fail(Tx, res, parent.st)
                ELSE The({
                    IF dir.st # "ok" THEN Fail(Tx, res, dir.st)
                    ELSE IF HasEntry(dir.dir, PathAsName(path))
                    THEN End(Tx, TRUE, [res EXCEPT !.st = "FileExists"],
                             open_files, curr_dir)
                    ELSE The({ End(c.tx, c.st = "ok",
                                   [res EXCEPT !.st = c.st, !.node = c.node_index],
                                   open_files, curr_dir) :
                               c \in {CreateFile(Tx, parent.node_index,
                                                 SplitPath(path).name, FT_FILE)} }) :
                    dir \in {ReadDirectory(Tx, parent.node_index)} }) :
                parent \in {FindNode(Tx, SplitPath(path).parent, curr_dir)} }))

Open(path) ==
    LET res == [Call("open") EXCEPT !.path = path]
    IN /\ ~halted
       /\ Settle(
            IF ~fs.some THEN Fail(Tx, res, "FilesystemNotMounted")
            ELSE The({
                IF f.st # "ok" THEN Fail(Tx, res, f.st)
                ELSE End(Tx, TRUE,
                         [res EXCEPT !.node = f.node_index, !.fd = FindFreeFd(open_files)],
                         OpenFile(open_files, FileDescriptionNew(f.node_index)),
                         curr_dir) :
                f \in {FindNode(Tx, path, curr_dir)} }))

Close(fd) ==
    LET res == [Call("close") EXCEPT !.fd = fd]
    IN /\ ~halted
       /\ Settle(
            IF ~fs.some THEN Fail(Tx, res, "FilesystemNotMounted")
            ELSE IF fd \notin DOMAIN open_files
            THEN Fail(Tx, res, "InvalidFileDescriptor")
            ELSE The({
                IF IsOpened(at.table, at.node)
                THEN End(Tx, FALSE, [res EXCEPT !.node = at.node], at.table, curr_dir)
                ELSE The({
                    IF r.st # "ok"
                    THEN End(Tx, FALSE, [res EXCEPT !.st = r.st, !.node = at.node],
                             at.table, curr_dir)
                    ELSE IF r.node.link_count = 0
                    THEN The({ End(del.tx, del.st = "ok",
                                   [res EXCEPT !.st = del.st, !.node = at.node, !.n = 1],
                                   at.table, curr_dir) :
                               del \in {DeleteNode(Tx, at.node)} })
                    ELSE End(Tx, TRUE, [res EXCEPT !.node = at.node], at.table, curr_dir) :
                    r \in {ReadNode(Tx, at.node)} }) :
                at \in {[node |-> open_files[fd].node_index,
                         table |-> RemoveFd(open_files, fd)]} }))

Seek(fd, offset) ==
    LET res == [Call("seek") EXCEPT !.fd = fd, !.arg = offset]
    IN /\ ~halted
       /\ Settle(
            IF fd \notin DOMAIN open_files
            THEN Fail(Tx, res, "InvalidFileDescriptor")
            ELSE End(Tx, FALSE,
                     [res EXCEPT !.node = open_files[fd].node_index,
                                 !.off = open_files[fd].offset],
                     [open_files EXCEPT ![fd].offset = offset], curr_dir))

Read(fd, buf_len) ==
    LET res == [Call("read") EXCEPT !.fd = fd, !.arg = buf_len]
    IN /\ ~halted
       /\ Settle(
            IF ~fs.some THEN Fail(Tx, res, "FilesystemNotMounted")
            ELSE IF fd \notin DOMAIN open_files
            THEN Fail(Tx, res, "InvalidFileDescriptor")
            ELSE The({
                End(Tx, r.st = "ok",
                    [res EXCEPT !.st = r.st, !.node = open_files[fd].node_index,
                                !.off = open_files[fd].offset, !.n = r.n, !.out = r.data],
                    IF r.st = "ok"
                    THEN [open_files EXCEPT ![fd].offset = (@ + r.n) % USIZE_MOD]
                    ELSE open_files,
                    curr_dir) :
                r \in {ReadFileAt(Tx, open_files[fd].node_index, open_files[fd].offset,
                                  buf_len)} }))

Write(fd, buf) ==
    LET res == [Call("write") EXCEPT !.fd = fd, !.data = buf]
    IN /\ ~halted
       /\ Settle(
            IF ~fs.some THEN Fail(Tx, res, "FilesystemNotMounted")
            ELSE IF fd \notin DOMAIN open_files
            THEN Fail(Tx, res, "InvalidFileDescriptor")
            ELSE The({
                End(w.tx, w.st = "ok",
                    [res EXCEPT !.st = w.st, !.node = open_files[fd].node_index,
                                !.off = open_files[fd].offset, !.n = w.n],
                    IF w.st = "ok"
                    THEN [open_files EXCEPT ![fd].offset = (@ + w.n) % USIZE_MOD]
                    ELSE open_files,
                    curr_dir) :
                w \in {WriteFileAt(Tx, open_files[fd].node_index, open_files[fd].offset,
                                   buf)} }))

Link(old_path, new_path) ==
    LET res == [Call("link") EXCEPT !.path = old_path, !.path2 = new_path]
    IN /\ ~halted
       /\ Settle(
            IF ~fs.some THEN Fail(Tx, res, "FilesystemNotMounted")
            ELSE The({
                IF f.st # "ok" THEN Fail(Tx, res, f.st)
                ELSE The({
                    IF parent.st # "ok" THEN Fail(Tx, res, parent.st)
                    ELSE The({
                        IF dir.st # "ok" THEN Fail(Tx, res, dir.st)
                        ELSE IF HasEntry(dir.dir, PathAsName(new_path))
                        THEN End(Tx, TRUE,
                                 [res EXCEPT !.st = "FileExists", !.node = f.node_index],
                                 open_files, curr_dir)
                        ELSE The({ End(l.tx, l.st = "ok",
                                       [res EXCEPT !.st = l.st, !.node = f.node_index],
                                       open_files, curr_dir) :
                                   l \in {LinkFile(Tx, parent.node_index, f.node_index,
                                                   SplitPath(new_path).name)} }) :
                        dir \in {ReadDirectory(Tx, parent.node_index)} }) :
                    parent \in {FindNode(Tx, SplitPath(new_path).parent, curr_dir)} }) :
                f \in {FindNode(Tx, old_path, curr_dir)} }))

Unlink(path) ==
    LET res == [Call("unlink") EXCEPT !.path = path]
    IN /\ ~halted
       /\ Settle(
            IF ~fs.some THEN Fail(Tx, res, "FilesystemNotMounted")
            ELSE The({
                IF f.st # "ok" THEN Fail(Tx, res, f.st)
                ELSE The({
                    IF parent.st # "ok" THEN Fail(Tx, res, parent.st)
                    ELSE The({ End(u.tx, u.st = "ok",
                                   [res EXCEPT !.st = u.st, !.node = f.node_index],
                                   open_files, curr_dir) :
                               u \in {UnlinkFile(Tx, parent.node_index,
                                          SplitPath(path).name,
                                          ~IsOpened(open_files, f.node_index))} }) :
                    parent \in {FindNode(Tx, SplitPath(path).parent, curr_dir)} }) :
                f \in {FindNode(Tx, path, curr_dir)} }))

Truncate(path, size) ==
    LET res == [Call("truncate") EXCEPT !.path = path, !.arg = size]
    IN /\ ~halted
       /\ Settle(
            IF ~fs.some THEN Fail(Tx, res, "FilesystemNotMounted")
            ELSE The({
                IF f.st # "ok" THEN Fail(Tx, res, f.st)
                ELSE The({ End(t.tx, t.st = "ok",
                               [res EXCEPT !.st = t.st, !.node = f.node_index],
                               open_files, curr_dir) :
                           t \in {TruncateFile(Tx, f.node_index, size)} }) :
                f \in {FindNode(Tx, path, curr_dir)} }))

Stat(path) ==
    LET res == [Call("stat") EXCEPT !.path = path]
    IN /\ ~halted
       /\ Settle(
            IF ~fs.some THEN Fail(Tx, res, "FilesystemNotMounted")
            ELSE The({
                IF f.st # "ok" THEN Fail(Tx, res, f.st)
                ELSE The({
                    IF r.st # "ok" THEN Fail(Tx, res, r.st)
                    ELSE End(Tx, TRUE,
                             [res EXCEPT !.st = NodeBlockCount(r.node).st,
                                         !.node = f.node_index,
                                         !.stats = FileStatsNew(f.node_index, r.node)],
                             open_files, curr_dir) :
                    r \in {ReadNode(Tx, f.node_index)} }) :
                f \in {FindNode(Tx, path, curr_dir)} }))

Mkdir(path) ==
    LET res == [Call("mkdir") EXCEPT !.path = path]
    IN /\ ~halted
       /\ Settle(
            IF ~fs.some THEN Fail(Tx, res, "FilesystemNotMounted")
            ELSE The({
                IF parent.st # "ok" THEN Fail(Tx, res, parent.st)
                ELSE The({ End(c.tx, c.st = "ok",
                               [res EXCEPT !.st = c.st, !.node = c.node_index],
                               open_files, curr_dir) :
                           c \in {CreateDirectory(Tx, parent.node_index,
                                                  SplitPath(path).name)} }) :
                parent \in {FindNode(Tx, SplitPath(path).parent, curr_dir)} }))

\* What Kernel::rmdir does up to its return: the transaction, whether it commits it,
\* and the result.
RmdirCall(path0) ==
    LET res == [Call("rmdir") EXCEPT !.path = path0]
        path == TrimSlashes(path0)
    IN (IF ~fs.some THEN Fail(Tx, res, "FilesystemNotMounted")
            ELSE The({
                IF f.st # "ok" THEN Fail(Tx, res, f.st)
                ELSE IF f.node_index = ROOT_INDEX
                THEN End(Tx, FALSE, [res EXCEPT !.st = "NotPermitted", !.node = f.node_index],
                         open_files, curr_dir)
                ELSE The({
                    IF parent.st # "ok" THEN Fail(Tx, res, parent.st)
                    ELSE The({ End(r.tx, r.st = "ok",
                                   [res EXCEPT !.st = r.st, !.node = f.node_index],
                                   open_files, curr_dir) :
                               r \in {RemoveDirectory(Tx, parent.node_index,
                                                      SplitPath(path).name)} }) :
                    parent \in {FindNode(Tx, SplitPath(path).parent, curr_dir)} }) :
                f \in {FindNode(Tx, path, curr_dir)} }))

Rmdir(path0) == ~halted /\ Settle(RmdirCall(path0))

Cd(path) ==
    LET res == [Call("cd") EXCEPT !.path = path]
    IN /\ ~halted
       /\ Settle(
            IF ~fs.some THEN Fail(Tx, res, "FilesystemNotMounted")
            ELSE The({
                IF f.st # "ok" THEN Fail(Tx, res, f.st)
                ELSE The({
                    IF r.st # "ok" THEN Fail(Tx, res, r.st)
                    ELSE IF r.node.filetype # FT_DIR
                    THEN End(Tx, FALSE, [res EXCEPT !.st = "NotDir", !.node = f.node_index],
                             open_files, curr_dir)
                    ELSE End(Tx, TRUE, [res EXCEPT !.node = f.node_index],
                             open_files, f.node_index) :
                    r \in {ReadNode(Tx, f.node_index)} }) :
                f \in {FindNode(Tx, path, curr_dir)} }))

\* The non-null entries of a directory, in order, as (name, node_index).
RECURSIVE Listing(_, _)
Listing(dir, i) ==
    IF i >= Len0(dir) THEN <<>>
    ELSE IF EntryIsNull(dir[i]) THEN Listing(dir, i + 1)
    ELSE <<[name |-> dir[i].name, node_index |-> dir[i].node_index]>> \o Listing(dir, i + 1)

Ls(path) ==
    LET res == [Call("ls") EXCEPT !.path = path]
    IN /\ ~halted
       /\ Settle(
            IF ~fs.some THEN Fail(Tx, res, "FilesystemNotMounted")
            ELSE The({
                IF f.st # "ok" THEN Fail(Tx, res, f.st)
                ELSE The({
                    IF d.st # "ok" THEN Fail(Tx, res, d.st)
                    ELSE End(Tx, TRUE,
                             [res EXCEPT !.node = f.node_index, !.list = Listing(d.dir, 0)],
                             open_files, curr_dir) :
                    d \in {ReadDirectory(Tx, f.node_index)} }) :
                f \in {FindNode(Tx, path, curr_dir)} }))

Mkfs(node_count) ==
    /\ ~halted
    /\ \E f \in {Format(storage, Len0(storage), node_count)} :
        IF f.st # "ok"
        THEN /\ halted' = TRUE
             /\ last' = [Call("mkfs") EXCEPT !.arg = node_count, !.st = f.st]
             /\ UNCHANGED <<storage, fs, open_files, curr_dir, wrap, tx_changes>>
        ELSE /\ storage' = f.storage
             /\ fs' = f.fs
             /\ open_files' = NoFiles
             /\ last' = [Call("mkfs") EXCEPT !.arg = node_count, !.committed = TRUE]
             /\ UNCHANGED <<curr_dir, halted, wrap, tx_changes>>

MountFs ==
    /\ ~halted
    /\ \E m \in {Mount(storage)} :
        IF m.st # "ok"
        THEN /\ halted' = TRUE
             /\ last' = [Call("mount") EXCEPT !.st = m.st]
             /\ UNCHANGED <<storage, fs, open_files, curr_dir, wrap, tx_changes>>
        ELSE /\ fs' = m.fs
             /\ open_files' = NoFiles
             /\ last' = Call("mount")
             /\ UNCHANGED <<storage, curr_dir, halted, wrap, tx_changes>>

----------------------------------------------------------------------------
\* The kernel after Kernel::new over a zeroed device, in either build profile.

Init ==
    /\ storage = StorageNew
    /\ fs = NoFs
    /\ open_files = NoFiles
    /\ curr_dir = ROOT_INDEX
    /\ last = Call("new")
    /\ halted = FALSE
    /\ wrap \in BOOLEAN
    /\ steps = 0
    /\ tx_changes = <<>>

\* The arguments the calls are made with.  The names after "." and ".." are the
\* user's; Payload(len) is the bytes 1, 2, ..., len, so that every position of a
\* payload differs from every other and from zero.
MaxNames == 1
MaxOpen == 1
MaxSteps == 5
MaxFileSteps == 9
UserNames == (NAME_DOTDOT + 1)..(NAME_DOTDOT + MaxNames)
RootPath == Path(TRUE, <<>>)
NewPaths == {Path(FALSE, <<n>>) : n \in UserNames}
Paths == {RootPath} \cup NewPaths \cup {Path(TRUE, <<n>>) : n \in UserNames}
Fds == 0..(MaxOpen - 1)
Payload(len) == [i \in 0..(len - 1) |-> i + 1]
FreeFd == Cardinality(DOMAIN open_files) < MaxOpen

\* Every syscall, on a few paths, for a few calls.
Step == steps < MaxSteps /\ steps' = steps + 1

Next ==
    \/ Step /\ Mkfs(NodeCount)
    \/ Step /\ MountFs
    \/ Step /\ \E p \in Paths : Create(p)
    \/ Step /\ FreeFd /\ \E p \in Paths : Open(p)
    \/ Step /\ \E fd \in Fds : Close(fd)
    \/ Step /\ \E fd \in Fds : Seek(fd, BLOCK_SIZE)
    \/ Step /\ \E fd \in Fds : Read(fd, BLOCK_SIZE)
    \/ Step /\ \E fd \in Fds : Write(fd, Payload(BLOCK_SIZE + 1))
    \/ Step /\ \E p \in Paths, q \in NewPaths : Link(p, q)
    \/ Step /\ \E p \in Paths : Unlink(p)
    \/ Step /\ \E p \in Paths : Truncate(p, 1)
    \/ Step /\ \E p \in Paths : Stat(p)
    \/ Step /\ \E p \in Paths : Mkdir(p)
    \/ Step /\ \E p \in Paths : Rmdir(p)
    \/ Step /\ \E p \in Paths : Cd(p)
    \/ Step /\ \E p \in Paths : Ls(p)

Spec == Init /\ [][Next]_vars

\* One file of a freshly formatted device, written, read and truncated through one
\* descriptor, for more calls.  FarOffset is far enough into the file for a hole
\* to be as long as the device's metadata and the file's first block together.
FileA == Path(FALSE, <<NAME_DOTDOT + 1>>)
FarOffset == (BlockCount - 2) * BLOCK_SIZE
Offsets == {0, FarOffset}
WriteLens == {1, 2 * BLOCK_SIZE + 1}
Sizes == {1, BLOCK_SIZE + 1, FarOffset + 1}
FileStep == steps < MaxFileSteps /\ steps' = steps + 1

NextFile ==
    \/ FileStep /\ ~fs.some /\ Mkfs(NodeCount)
    \/ FileStep /\ Create(FileA)
    \/ FileStep /\ FreeFd /\ Open(FileA)
    \/ FileStep /\ Close(0)
    \/ FileStep /\ \E o \in Offsets : Seek(0, o)
    \/ FileStep /\ Read(0, 3 * BLOCK_SIZE)
    \/ FileStep /\ \E n \in WriteLens : Write(0, Payload(n))
    \/ FileStep /\ \E n \in Sizes : Truncate(FileA, n)
    \/ FileStep /\ Unlink(FileA)
    \/ FileStep /\ Stat(FileA)

SpecFile == Init /\ [][NextFile]_vars

\* Two names of the root directory for one file, through two descriptors: the
\* file is created as a, linked as b or as /a, opened, written, read, unlinked
\* and closed.
FileB == Path(FALSE, <<NAME_DOTDOT + 2>>)
AbsFileA == Path(TRUE, <<NAME_DOTDOT + 1>>)
LinkNames == {FileA, FileB}
MaxLinkOpen == 2
MaxLinkSteps == 7
LinkFds == 0..(MaxLinkOpen - 1)
LinkStep == steps < MaxLinkSteps /\ steps' = steps + 1

NextLink ==
    \/ LinkStep /\ ~fs.some /\ Mkfs(NodeCount)
    \/ LinkStep /\ Create(FileA)
    \/ LinkStep /\ \E q \in {FileB, AbsFileA} : Link(FileA, q)
    \/ LinkStep /\ \E p \in LinkNames \cup {AbsFileA} : Unlink(p)
    \/ LinkStep /\ Cardinality(DOMAIN open_files) < MaxLinkOpen /\ \E p \in LinkNames : Open(p)
    \/ LinkStep /\ \E fd \in LinkFds : Close(fd)
    \/ LinkStep /\ Write(0, Payload(1))
    \/ LinkStep /\ \E fd \in LinkFds : Read(fd, 1)

SpecLink == Init /\ [][NextLink]_vars

\* An allocation map alone: every map of MaxMapLen flags, allocated from and
\* freed a few times.  The map is kept as the block map of fs; last holds the
\* count asked for (arg) and the span returned (off, n).
MaxMapLen == 5
MaxAllocSteps == 3

InitAlloc ==
    /\ storage = StorageNew
    /\ \E m \in [0..(MaxMapLen - 1) -> {FREE, USED}] : fs = [NoFs EXCEPT !.block_map = m]
    /\ open_files = NoFiles
    /\ curr_dir = ROOT_INDEX
    /\ last = Call("new")
    /\ halted = FALSE
    /\ wrap = TRUE
    /\ steps = 0
    /\ tx_changes = <<>>

AllocStep ==
    /\ ~halted /\ steps < MaxAllocSteps /\ steps' = steps + 1
    /\ UNCHANGED <<storage, open_files, curr_dir, wrap, tx_changes>>

AllocAllocate(count) ==
    /\ AllocStep
    /\ \E r \in {Allocate(fs.block_map, count)} :
        /\ fs' = [fs EXCEPT !.block_map = r.flags]
        /\ last' = [Call("allocate") EXCEPT !.arg = count, !.st = r.st,
                                            !.off = r.start, !.n = r.end]
    /\ UNCHANGED halted

AllocFree(s, e) ==
    /\ AllocStep
    /\ \E r \in {FreeSpan(fs.block_map, s, e)} :
        /\ fs' = [fs EXCEPT !.block_map = r.flags]
        /\ last' = [Call("free") EXCEPT !.st = r.st, !.off = s, !.n = e]
        /\ halted' = (r.st = "panic")

NextAlloc ==
    \/ \E count \in 0..(MaxMapLen + 1) : AllocAllocate(count)
    \/ \E s, e \in 0..(MaxMapLen + 1) : AllocFree(s, e)

SpecAlloc == InitAlloc /\ [][NextAlloc]_vars

----------------------------------------------------------------------------
\* A directory of the root with a file inside it: a is made by mkdir or by
\* create, a/a is created inside it, and a, a/a and the root are removed by
\* rmdir; a, a/a and the root are linked as b.
MaxDirSteps == 5
InnerA == Path(FALSE, <<NAME_DOTDOT + 1, NAME_DOTDOT + 1>>)
DirPaths == {RootPath, FileA, InnerA}
DirStep == steps < MaxDirSteps /\ steps' = steps + 1

NextDir ==
    \/ DirStep /\ ~fs.some /\ Mkfs(NodeCount)
    \/ DirStep /\ \E p \in DirPaths : Mkdir(p)
    \/ DirStep /\ \E p \in DirPaths : Create(p)
    \/ DirStep /\ \E p \in DirPaths : Unlink(p)
    \/ DirStep /\ \E p \in DirPaths : Rmdir(p)
    \/ DirStep /\ \E p \in DirPaths : Link(p, FileB)

SpecDir == Init /\ [][NextDir]_vars

----------------------------------------------------------------------------
\* Node::map_block on one node of the node table of a formatted device.  The
\* node starts as a new node, or as the node that map_block itself makes of a
\* new node when every (gap + 1)-th logical block is mapped: pairs of a hole of
\* gap blocks and a mapped block, one pair or as many as fill all the extents
\* but one or three, the last mapped block ending at block 7.
MaxGap == 3
MaxNodeSteps == 1
UnderTest == ROOT_INDEX + 1
FullPairs == EXTENTS_PER_NODE \div 2
MaxLogic == FullPairs * (MaxGap + 1) + 1
PhysBlocks == {6, 7}

RECURSIVE Gapped(_, _, _)
Gapped(done, gap, pairs) ==
    IF done = 0 THEN DefaultNode
    ELSE MapBlock(Gapped(done - 1, gap, pairs), done * (gap + 1) - 1,
                  2 * (pairs - done) + 6).node

StartNodes ==
    {DefaultNode} \cup {Gapped(pairs, gap, pairs) : pairs \in {1, FullPairs - 1, FullPairs},
                                                     gap \in 0..MaxGap}

InitNode ==
    /\ wrap \in BOOLEAN
    /\ \E node \in StartNodes :
        \E f \in {Format(StorageNew, BlockCount, NodeCount)} :
            \E w \in {WriteNode(TxNew(f.fs, f.storage), UnderTest, node)} :
                /\ fs = f.fs
                /\ storage = Commit(w.tx).storage
    /\ open_files = NoFiles
    /\ curr_dir = ROOT_INDEX
    /\ last = Call("new")
    /\ halted = FALSE
    /\ steps = 0
    /\ tx_changes = <<>>

\* node.map_block(logic_block, phys_block) on the node under test; the node is
\* written back as the call left it, whatever it returned.
NodeMapBlock(logic_block, phys_block) ==
    /\ ~halted
    /\ steps < MaxNodeSteps
    /\ steps' = steps + 1
    /\ Settle(The({
            The({ End(w.tx, TRUE,
                      [Call("map_block") EXCEPT !.st = m.st, !.node = UnderTest,
                                                !.arg = logic_block, !.n = phys_block],
                      open_files, curr_dir) :
                  w \in {WriteNode(Tx, UnderTest, m.node)} }) :
            m \in {MapBlock(ReadNode(Tx, UnderTest).node, logic_block, phys_block)} }))

NextNode == \E logic_block \in 0..MaxLogic, phys_block \in PhysBlocks :
                NodeMapBlock(logic_block, phys_block)

SpecNode == InitNode /\ [][NextNode]_vars

----------------------------------------------------------------------------
\* One transaction held open on a formatted device: blocks and nodes are staged
\* and read back through it, blocks and nodes are allocated in the filesystem's
\* maps, and a commit flushes it and opens the next one.  The blocks are the
\* superblock's, the first block of the block map, the first data block and the
\* first index outside the device; the nodes are the root, the next one and the
\* first index outside the node table.
MaxTxSteps == 3
TxBlocks ==
    {0, SuperblockNew(BlockCount, NodeCount).block_map_offset,
     SuperblockNew(BlockCount, NodeCount).data_offset, BlockCount}
TxNodes == {ROOT_INDEX, UnderTest, NodeCount}
TxBlockValues == {BlockNew(Payload(BLOCK_SIZE)), BlockNew(Payload(1))}
TxNodeValues == {[NewNode(FT_FILE) EXCEPT !.size = 1], Gapped(1, 1, 1)}

\* The transaction that is open.
TxOpen == [TxNew(fs, storage) EXCEPT !.changes = tx_changes]

InitTx ==
    /\ wrap \in BOOLEAN
    /\ \E f \in {Format(StorageNew, BlockCount, NodeCount)} :
        fs = f.fs /\ storage = f.storage
    /\ open_files = NoFiles
    /\ curr_dir = ROOT_INDEX
    /\ last = Call("new")
    /\ halted = FALSE
    /\ steps = 0
    /\ tx_changes = <<>>

TxStep ==
    /\ ~halted
    /\ steps < MaxTxSteps
    /\ steps' = steps + 1
    /\ UNCHANGED <<open_files, curr_dir, wrap>>

\* tx.write_block(block_index, block)
TxWriteBlock(block_index, block) ==
    /\ TxStep
    /\ tx_changes' = WriteBlock(TxOpen, block_index, block).changes
    /\ last' = [Call("write_block") EXCEPT !.arg = block_index, !.out = block]
    /\ UNCHANGED <<storage, fs, halted>>

\* tx.read_block(block_index)
TxReadBlock(block_index) ==
    /\ TxStep
    /\ \E r \in {ReadBlock(TxOpen, block_index)} :
        last' = [Call("read_block") EXCEPT !.arg = block_index, !.st = r.st, !.out = r.block]
    /\ UNCHANGED <<storage, fs, tx_changes, halted>>

\* tx.write_node(node_index, node)
TxWriteNode(node_index, node) ==
    /\ TxStep
    /\ \E w \in {WriteNode(TxOpen, node_index, node)} :
        /\ tx_changes' = w.tx.changes
        /\ last' = [Call("write_node") EXCEPT !.node = node_index, !.st = w.st, !.out = node]
    /\ UNCHANGED <<storage, fs, halted>>

\* tx.fs.block_map.allocate(1) or tx.fs.node_map.allocate(1): the maps are the
\* filesystem's own.
TxAllocate(of_nodes) ==
    /\ TxStep
    /\ \E a \in {Allocate(IF of_nodes THEN fs.node_map ELSE fs.block_map, 1)} :
        /\ fs' = IF of_nodes THEN [fs EXCEPT !.node_map = a.flags]
                 ELSE [fs EXCEPT !.block_map = a.flags]
        /\ last' = [Call("allocate") EXCEPT !.arg = 1, !.st = a.st, !.off = a.start,
                                            !.n = a.end]
    /\ UNCHANGED <<storage, tx_changes, halted>>

\* tx.read_node(node_index)
TxReadNode(node_index) ==
    /\ TxStep
    /\ \E r \in {ReadNode(TxOpen, node_index)} :
        last' = [Call("read_node") EXCEPT !.node = node_index, !.st = r.st, !.out = r.node]
    /\ UNCHANGED <<storage, fs, tx_changes, halted>>

\* tx.commit(), which panics at a staged block that is outside the device, and
\* Transaction::new for the next transaction.
TxCommit ==
    /\ TxStep
    /\ \E c \in {Commit(TxOpen)} :
        /\ storage' = c.storage
        /\ halted' = (c.st # "ok")
        /\ last' = [Call("commit") EXCEPT
                        !.st = c.st, !.committed = TRUE,
                        !.staged = Cardinality(DOMAIN tx_changes),
                        !.flushed = Cardinality(DOMAIN SyncMaps(TxOpen).tx.changes)]
    /\ tx_changes' = <<>>
    /\ UNCHANGED fs

NextTx ==
    \/ \E i \in TxBlocks, b \in TxBlockValues : TxWriteBlock(i, b)
    \/ \E i \in TxBlocks : TxReadBlock(i)
    \/ \E n \in TxNodes, node \in TxNodeValues : TxWriteNode(n, node)
    \/ \E n \in TxNodes : TxReadNode(n)
    \/ \E of_nodes \in BOOLEAN : TxAllocate(of_nodes)
    \/ TxCommit

SpecTx == InitTx /\ [][NextTx]_vars

----------------------------------------------------------------------------
\* Node::append_hole on one node of the node table of a formatted device.  The
\* node starts as one of the nodes that map_block makes, or as one of them with
\* a hole of one block appended, which fills the last extent of the fullest.
HoleCounts == {0, 1, 2}
HoleStartNodes == StartNodes \cup {AppendHole(node, 1).node : node \in StartNodes}

InitHole ==
    /\ wrap \in BOOLEAN
    /\ \E node \in HoleStartNodes :
        \E f \in {Format(StorageNew, BlockCount, NodeCount)} :
            \E w \in {WriteNode(TxNew(f.fs, f.storage), UnderTest, node)} :
                /\ fs = f.fs
                /\ storage = Commit(w.tx).storage
    /\ open_files = NoFiles
    /\ curr_dir = ROOT_INDEX
    /\ last = Call("new")
    /\ halted = FALSE
    /\ steps = 0
    /\ tx_changes = <<>>

\* node.append_hole(count) on the node under test; the node is written back as
\* the call left it, whatever it returned.
NodeAppendHole(count) ==
    /\ ~halted
    /\ steps < MaxNodeSteps
    /\ steps' = steps + 1
    /\ Settle(The({
            The({ End(w.tx, TRUE,
                      [Call("append_hole") EXCEPT !.st = a.st, !.node = UnderTest,
                                                  !.arg = count],
                      open_files, curr_dir) :
                  w \in {WriteNode(Tx, UnderTest, a.node)} }) :
            a \in {AppendHole(ReadNode(Tx, UnderTest).node, count)} }))

NextHole == \E count \in HoleCounts : NodeAppendHole(count)

SpecHole == InitHole /\ [][NextHole]_vars

----------------------------------------------------------------------------
\* The nodes of the node table, as a transaction opened now reads them.

NodeIndices == 0..(fs.superblock.node_count - 1)
NodeAt(n) == ReadNode(Tx, n).node
Extents(n) == {NodeAt(n).extents[i] : i \in 0..(EXTENTS_PER_NODE - 1)}
IsUsed(map, i) == i \in DOMAIN map /\ map[i] = USED
AllZero(data) == \A i \in DOMAIN data : data[i] = 0

\* Every logical block of node n up to its size is on a physical block.
FullyMapped(n) ==
    \A lb \in 0..(CeilDiv(NodeAt(n).size, BLOCK_SIZE) - 1) :
        GetPhysicalBlock(NodeAt(n), lb).st = "ok" /\ GetPhysicalBlock(NodeAt(n), lb).some

\* The call that was just made worked on an existing node.
OnNode(op) == last'.op = op /\ last'.node # 0

\* What Kernel::stat returns for path now.
StatOf(path) ==
    IF ~fs.some THEN [st |-> "FilesystemNotMounted", stats |-> NoStats]
    ELSE The({
        IF f.st # "ok" THEN [st |-> f.st, stats |-> NoStats]
        ELSE The({ IF r.st # "ok" THEN [st |-> r.st, stats |-> NoStats]
                   ELSE [st |-> NodeBlockCount(r.node).st,
                         stats |-> FileStatsNew(f.node_index, r.node)] :
                   r \in {ReadNode(Tx, f.node_index)} }) :
        f \in {FindNode(Tx, path, curr_dir)} })

----------------------------------------------------------------------------
\* C1: after a write at offset 0 that returned the length of its data, a read of
\* the file from offset 0 into a buffer of that length returns that length and
\* the buffer holds exactly the data.
C1_WriteReadRoundTrip ==
    (last.op = "write" /\ last.st = "ok" /\ last.off = 0 /\ last.n = Len0(last.data)) =>
        LET r == ReadFileAt(Tx, last.node, 0, Len0(last.data))
        IN r.st = "ok" /\ r.n = Len0(last.data) /\ r.data = last.data

\* C2: once the device is formatted, block-map positions [0, data_offset) are Used
\* and node-map position 0 is Used, whatever calls were made.
C2_ReservedRegion ==
    fs.some =>
        /\ \A i \in 0..(fs.superblock.data_offset - 1) : IsUsed(fs.block_map, i)
        /\ IsUsed(fs.node_map, 0)

\* C3: after every committed transaction, every node with link_count > 0 is Used
\* in the node map and every block of each of its mapped extents is Used in the
\* block map.
C3_BitmapConsistency ==
    (fs.some /\ last.committed) =>
        \A n \in NodeIndices :
            NodeAt(n).link_count > 0 =>
                /\ IsUsed(fs.node_map, n)
                /\ \A e \in Extents(n) :
                      IsMapped(e) => \A b \in e.start..(e.end - 1) : IsUsed(fs.block_map, b)

\* C4: after every committed transaction, every mapped extent of every node
\* starts at or after data_offset.
C4_NoExtentIntoMetadata ==
    (fs.some /\ last.committed) =>
        \A n \in NodeIndices :
            \A e \in Extents(n) : IsMapped(e) => e.start >= fs.superblock.data_offset

C6_NoDeviceWriteBeforeCommit ==
    [][~last'.committed => storage' = storage]_vars

\* A call has returned an error and dropped a transaction that had staged blocks.
C6_DroppedWithStagedBlocks ==
    ~halted /\ ~last.committed /\ last.st # "ok" /\ last.staged > 0

\* C7: right after a commit, a mount of the device rebuilds allocation maps equal
\* to the ones in memory.
C7_BitmapPersistence ==
    (fs.some /\ last.committed) =>
        LET m == Mount(storage)
        IN m.st = "ok" /\ m.fs.block_map = fs.block_map /\ m.fs.node_map = fs.node_map

\* C8: format followed by mount gives a filesystem whose root, node 1, is a
\* directory listing exactly "." and "..", both node 1, and whose node map has
\* no other node than 0 and 1 Used.
C8_FormatThenMount ==
    (last.op = "mkfs" /\ last.st = "ok") =>
        LET m == Mount(storage)
            root == ReadNode(TxNew(m.fs, storage), ROOT_INDEX)
            d == ReadDirectory(TxNew(m.fs, storage), ROOT_INDEX)
        IN /\ m.st = "ok"
           /\ root.st = "ok" /\ root.node.filetype = FT_DIR
           /\ d.st = "ok"
           /\ Listing(d.dir, 0) = <<[name |-> NAME_DOT, node_index |-> ROOT_INDEX],
                                    [name |-> NAME_DOTDOT, node_index |-> ROOT_INDEX]>>
           /\ \A n \in 0..(NodeCount - 1) : IsUsed(m.fs.node_map, n) <=> n \in {0, ROOT_INDEX}

\* C9: a truncate of a file, every logical block of which is mapped, to less than
\* its size succeeds, sets the size, keeps exactly ceil(size / BLOCK_SIZE) logical
\* blocks on the physical blocks they had, and frees the physical blocks of the
\* tail it removed.
C9_ShrinkingTruncate ==
    [][\A n \in {last'.node} : \A size \in {last'.arg} :
        (/\ OnNode("truncate")
         /\ NodeAt(n).filetype = FT_FILE
         /\ FullyMapped(n)
         /\ size < NodeAt(n).size)
        => /\ last'.st = "ok"
           /\ NodeAt(n)'.size = size
           /\ NodeBlockCount(NodeAt(n))' = [st |-> "ok", v |-> CeilDiv(size, BLOCK_SIZE)]
           /\ \A lb \in 0..(CeilDiv(NodeAt(n).size, BLOCK_SIZE) - 1) :
                 IF lb < CeilDiv(size, BLOCK_SIZE)
                 THEN GetPhysicalBlock(NodeAt(n), lb)' = GetPhysicalBlock(NodeAt(n), lb)
                 ELSE ~IsUsed(fs'.block_map, GetPhysicalBlock(NodeAt(n), lb).v)]_vars

\* C10: a truncate of a file to its size or more sets the size, leaves the block
\* map as it was, and every byte then read from [old size, new size) is zero.
C10_GrowingTruncate ==
    [][\A n \in {last'.node} : \A size \in {last'.arg} : \A old_size \in {NodeAt(n).size} :
        (/\ OnNode("truncate")
         /\ NodeAt(n).filetype = FT_FILE
         /\ size >= old_size)
        => /\ last'.st = "ok"
           /\ NodeAt(n)'.size = size
           /\ fs'.block_map = fs.block_map
           /\ ReadFileAt(Tx, n, old_size, size - old_size)'.st = "ok"
           /\ ReadFileAt(Tx, n, old_size, size - old_size)'.n = size - old_size
           /\ AllZero(ReadFileAt(Tx, n, old_size, size - old_size)'.data)]_vars

\* C11: after a link(a, b) that returned Ok, stat of a and stat of b succeed, give
\* the same node and a link count one more than stat of a gave before; after an
\* unlink(b) that follows it, unlink returned Ok, stat of a gives the link count
\* less one and b resolves no more.
C11_LinkCountLaw ==
    [][/\ \A a \in {last'.path} : \A b \in {last'.path2} :
            (last'.op = "link" /\ last'.st = "ok")
            => /\ StatOf(a)'.st = "ok" /\ StatOf(b)'.st = "ok"
               /\ StatOf(a)'.stats.node_index = StatOf(b)'.stats.node_index
               /\ StatOf(a)'.stats.link_count = StatOf(a).stats.link_count + 1
               /\ StatOf(b)'.stats.link_count = StatOf(a).stats.link_count + 1
       /\ \A a \in {last.path} : \A b \in {last.path2} :
            (last.op = "link" /\ last.st = "ok" /\ last'.op = "unlink" /\ last'.path = b)
            => /\ last'.st = "ok"
               /\ StatOf(a)'.st = "ok"
               /\ StatOf(a)'.stats.link_count = StatOf(a).stats.link_count - 1
               /\ StatOf(b)'.st = "FileNotFound"]_vars

\* Some description of the table is on node n.
Referenced(table, n) == \E k \in DOMAIN table : table[k].node_index = n

\* Every block of every mapped extent of node is flag in the block map.
BlocksAre(map, node, flag) ==
    \A i \in DOMAIN node.extents :
        IsMapped(node.extents[i]) =>
            \A b \in node.extents[i].start..(node.extents[i].end - 1) :
                b \in DOMAIN map /\ map[b] = flag

\* C12: an unlink of the last link of a node that an open description references
\* leaves the node Used, its blocks Used and its record and content as they were
\* but for the link count, and reads and writes through a descriptor of such a
\* node succeed, a write at or before the end of the file taking every byte; a close of the last description of a node whose link count is 0
\* succeeds, commits, and leaves the node and its blocks Free; a close that leaves
\* another description on the node changes neither map nor the device.
C12_DeferredDeletion ==
    [][\A n \in {last'.node} : \A fd \in {last'.fd} :
        /\ (/\ last'.op = "unlink" /\ last'.st = "ok"
            /\ Referenced(open_files, n) /\ NodeAt(n).link_count = 1)
           => /\ IsUsed(fs'.node_map, n)
              /\ BlocksAre(fs'.block_map, NodeAt(n), USED)
              /\ NodeAt(n)' = [NodeAt(n) EXCEPT !.link_count = 0]
              /\ ReadFileAt(Tx, n, 0, NodeAt(n).size)' = ReadFileAt(Tx, n, 0, NodeAt(n).size)
        /\ (/\ last'.op \in {"read", "write"} /\ fd \in DOMAIN open_files
            /\ fs.some /\ NodeAt(n).link_count = 0 /\ NodeAt(n).filetype = FT_FILE)
           => /\ last'.st = "ok"
              /\ (last'.op = "write" /\ last'.off <= NodeAt(n).size)
                 => last'.n = Len0(last'.data)
        /\ (/\ last'.op = "close" /\ fd \in DOMAIN open_files /\ fs.some
            /\ ~Referenced(RemoveFd(open_files, fd), n) /\ NodeAt(n).link_count = 0)
           => /\ last'.st = "ok" /\ last'.committed
              /\ ~IsUsed(fs'.node_map, n)
              /\ BlocksAre(fs'.block_map, NodeAt(n), FREE)
        /\ (/\ last'.op = "close" /\ fd \in DOMAIN open_files /\ fs.some
            /\ Referenced(RemoveFd(open_files, fd), n))
           => /\ last'.st = "ok"
              /\ fs'.node_map = fs.node_map /\ fs'.block_map = fs.block_map
              /\ storage' = storage]_vars

\* C13: an unlink of a name of a regular file that no open description references
\* returns Ok and tombstones the entry of that name in the parent directory; when
\* it was the last link, the node index and every block of the node's mapped
\* extents are Free afterwards, the node record is the default one and the name
\* resolves no more; when other links remain, the link count is one less and both
\* maps and the rest of the node record are as they were.
C13_UnlinkDeletes ==
    [][\A p \in {last'.path} :
       \A f \in {FindNode(Tx, p, curr_dir)} :
       \A par \in {FindNode(Tx, SplitPath(p).parent, curr_dir)} :
       \A name \in {SplitPath(p).name} :
        (/\ last'.op = "unlink" /\ fs.some
         /\ f.st = "ok" /\ par.st = "ok"
         /\ NodeAt(f.node_index).filetype = FT_FILE
         /\ NodeAt(f.node_index).link_count >= 1
         /\ ~Referenced(open_files, f.node_index))
        => \A n \in {f.node_index} :
            /\ last'.st = "ok"
            /\ ReadDirectory(Tx, par.node_index)'.dir
                    = RemoveEntry(ReadDirectory(Tx, par.node_index).dir, name).dir
            /\ IF NodeAt(n).link_count = 1
               THEN /\ ~IsUsed(fs'.node_map, n)
                    /\ BlocksAre(fs'.block_map, NodeAt(n), FREE)
                    /\ NodeAt(n)' = DefaultNode
                    /\ FindNode(Tx, p, curr_dir)'.st = "FileNotFound"
               ELSE /\ NodeAt(n)' = [NodeAt(n) EXCEPT !.link_count = @ - 1]
                    /\ fs'.node_map = fs.node_map
                    /\ fs'.block_map = fs.block_map]_vars

\* The entry that path names in its parent directory is one of a regular file.
NamesRegularFile(path) ==
    \E par \in {FindNode(Tx, SplitPath(path).parent, curr_dir)} :
        /\ par.st = "ok"
        /\ \E d \in {ReadDirectory(Tx, par.node_index)} :
            /\ d.st = "ok"
            /\ HasEntry(d.dir, SplitPath(path).name)
            /\ GetEntry(d.dir, SplitPath(path).name).filetype = FT_FILE

\* C14: a cd to the path, of a name that is not empty, of the mkdir that has just
\* returned Ok returns Ok and makes the node that mkdir created the current directory; a cd to a path that
\* names a regular file fails with NotDir and leaves the current directory as it
\* was.
C14_CdAfterMkdir ==
    [][/\ (/\ last.op = "mkdir" /\ last.st = "ok" /\ SplitPath(last.path).name # NAME_EMPTY
           /\ last'.op = "cd" /\ last'.path = last.path)
          => (last'.st = "ok" /\ curr_dir' = last.node)
       /\ \A p \in {last'.path} :
            (last'.op = "cd" /\ fs.some /\ NamesRegularFile(p))
            => (last'.st = "NotDir" /\ curr_dir' = curr_dir)]_vars

\* C15: after a mkdir of a path, of a name that is not empty, has returned Ok, an
\* rmdir of the same path returns Ok and commits, and leaves the block map and the
\* node map as they were before the mkdir, and every node record but that of the
\* node mkdir made as it was before the mkdir.
C15_MkdirRmdirRoundTrip ==
    [][\A p \in {last'.path} : \A made \in {last'.node} :
        (last'.op = "mkdir" /\ last'.st = "ok" /\ SplitPath(p).name # NAME_EMPTY)
        => \A rm \in {RmdirCall(p)'} : \A dev \in {Commit(RmdirCall(p).tx)'} :
            /\ rm.res.st = "ok" /\ rm.commit /\ dev.st = "ok"
            /\ rm.tx.block_map = fs.block_map
            /\ rm.tx.node_map = fs.node_map
            /\ \A n \in (0..(NodeCount - 1)) \ {made} :
                   ReadNode(TxNew(fs, dev.storage), n).node = NodeAt(n)]_vars

\* C16: a write through a descriptor whose offset is beyond the size of its file
\* returns Ok(0); write_file_at stages nothing and leaves the maps of the
\* transaction as they were; the node record, the filesystem's maps and the open
\* file table, the descriptor's offset included, are after the call as before it.
\* A read at an offset that a truncate has brought inside a file that never had
\* a block returns zero bytes only.
C16_WritePastEofIsNoOp ==
    [][\A fd \in {last'.fd} : \A n \in {last'.node} :
        /\ (/\ last'.op = "write" /\ fs.some /\ fd \in DOMAIN open_files
            /\ open_files[fd].offset > NodeAt(open_files[fd].node_index).size)
           => /\ last'.st = "ok" /\ last'.n = 0
              /\ WriteFileAt(Tx, n, open_files[fd].offset, last'.data)
                    = [st |-> "ok", tx |-> Tx, n |-> 0]
              /\ NodeAt(n)' = NodeAt(n)
              /\ fs' = fs
              /\ open_files' = open_files
        /\ (/\ last'.op = "read" /\ fs.some /\ fd \in DOMAIN open_files
            /\ \A e \in Extents(n) : IsNull(e)
            /\ open_files[fd].offset < NodeAt(n).size)
           => /\ last'.st = "ok"
              /\ last'.n = Min(last'.arg, NodeAt(n).size - open_files[fd].offset)
              /\ Len0(last'.out) = last'.n
              /\ AllZero(last'.out)]_vars

\* A write at an offset beyond the size of the file has returned Ok(0).
C16_WroteNothingPastEof ==
    /\ last.op = "write" /\ last.st = "ok" /\ last.n = 0 /\ Len0(last.data) > 0
    /\ fs.some /\ last.off > NodeAt(last.node).size
    /\ last.fd \in DOMAIN open_files /\ open_files[last.fd].offset = last.off

\* C17: an open that returns Ok returns the lowest descriptor that is not in the
\* open file table, puts at it a description of offset 0 for the node the path
\* resolves to, and leaves every other entry of the table as it was.
C17_DescriptorAllocation ==
    [][\A fd \in {last'.fd} : \A p \in {last'.path} :
        (last'.op = "open" /\ last'.st = "ok")
        => /\ fd \notin DOMAIN open_files
           /\ \A k \in 0..(fd - 1) : k \in DOMAIN open_files
           /\ DOMAIN open_files' = DOMAIN open_files \cup {fd}
           /\ open_files'[fd] = [node_index |-> FindNode(Tx, p, curr_dir).node_index,
                                 offset |-> 0]
           /\ FindNode(Tx, p, curr_dir).st = "ok"
           /\ \A k \in DOMAIN open_files : open_files'[k] = open_files[k]]_vars

\* An open has returned descriptor 0 while descriptor 1 was open.
C17_ReusedLowestDescriptor ==
    /\ last.op = "open" /\ last.st = "ok" /\ last.fd = 0
    /\ DOMAIN open_files = {0, 1}
    /\ open_files[0].offset = 0

\* The directory of node n is whole: its size is a multiple of the size of an
\* entry, it reads as a directory, its entry . is n and its entry .. is parent.
DirIsWhole(n, parent) ==
    /\ NodeAt(n).size % DIRENT_SIZE = 0
    /\ \E d \in {ReadDirectory(Tx, n)} :
        /\ d.st = "ok"
        /\ HasEntry(d.dir, NAME_DOT) /\ GetEntry(d.dir, NAME_DOT).node_index = n
        /\ HasEntry(d.dir, NAME_DOTDOT) /\ GetEntry(d.dir, NAME_DOTDOT).node_index = parent

\* The nodes that the entries of directory n, other than . and .., give as directories.
SubDirs(n) ==
    {e.node_index : e \in {ReadDirectory(Tx, n).dir[i] : i \in DOMAIN ReadDirectory(Tx, n).dir}
                           \cap {x \in {ReadDirectory(Tx, n).dir[i] :
                                            i \in DOMAIN ReadDirectory(Tx, n).dir} :
                                    /\ ~EntryIsNull(x) /\ x.filetype = FT_DIR
                                    /\ x.name \notin {NAME_DOT, NAME_DOTDOT}}}

\* C18: while the filesystem of a format is mounted and the program runs, the root
\* directory is whole with itself for parent, and every directory that an entry of
\* the root names is whole with the root for parent.
C18_DirectoryIntegrity ==
    (fs.some /\ fs.superblock # ZeroSuperblock /\ ~halted)
    => /\ DirIsWhole(ROOT_INDEX, ROOT_INDEX)
       /\ \A d \in SubDirs(ROOT_INDEX) : DirIsWhole(d, ROOT_INDEX)

IsCanonical(e) == IsNull(e) \/ IsHole(e) \/ (e.start > 0 /\ e.end > e.start)

\* C20: after every call every extent of every node record is null, a hole or a
\* mapped extent with start > 0 and end > start; a mapped extent that a truncate
\* has changed and not nullified keeps its start and ends after its start, at or
\* before its former end.
C20_CanonicalExtents ==
    [][(fs'.some /\ fs'.superblock # ZeroSuperblock)
       => /\ \A n \in 0..(NodeCount - 1) : \A ex \in {NodeAt(n).extents'} :
               \A i \in 0..(EXTENTS_PER_NODE - 1) : IsCanonical(ex[i])
          /\ \A n \in {last'.node} :
               (last'.op = "truncate" /\ last'.st = "ok" /\ fs.some)
               => \A old \in {NodeAt(n).extents} : \A new \in {NodeAt(n).extents'} :
                   \A i \in 0..(EXTENTS_PER_NODE - 1) :
                       (IsMapped(old[i]) /\ new[i] # old[i] /\ ~IsNull(new[i]))
                       => /\ new[i].start = old[i].start
                          /\ new[i].end > new[i].start
                          /\ new[i].end <= old[i].end]_vars

\* Every flag of map from s up to s + count is Free.
FreeRun(map, s, count) ==
    s + count <= Len0(map) /\ \A i \in s..(s + count - 1) : map[i] = FREE

\* C21: an allocate(count) of a map that has, for count >= 1, a run of count Free
\* flags returns the span (s, s + count) of the smallest such s, makes those flags
\* Used and leaves every other flag as it was; of a map that has none, or for
\* count = 0, it returns OutOfSpace and leaves the map as it was.
C21_FirstFit ==
    [][\A count \in {last'.arg} : \A map \in {fs.block_map} :
        last'.op = "allocate"
        => IF count >= 1 /\ \E s \in DOMAIN map : FreeRun(map, s, count)
           THEN /\ last'.st = "ok"
                /\ FreeRun(map, last'.off, count)
                /\ \A s \in 0..(last'.off - 1) : ~FreeRun(map, s, count)
                /\ last'.n = last'.off + count
                /\ fs'.block_map = [i \in DOMAIN map |->
                                       IF last'.off <= i /\ i < last'.n THEN USED ELSE map[i]]
           ELSE last'.st = "OutOfSpace" /\ fs'.block_map = map]_vars

\* An allocate of two or more flags has passed over a Free flag that had no run
\* of that length behind it.
C21_SkippedShortRun ==
    /\ last.op = "allocate" /\ last.st = "ok" /\ last.arg >= 2
    /\ \E i \in 0..(last.off - 1) : fs.block_map[i] = FREE

\* The parent directory of path resolves, reads, and has an entry of path's name.
NameExists(path) ==
    \E par \in {FindNode(Tx, SplitPath(path).parent, curr_dir)} :
        /\ par.st = "ok"
        /\ \E d \in {ReadDirectory(Tx, par.node_index)} :
            d.st = "ok" /\ HasEntry(d.dir, SplitPath(path).name)

\* The directory that is the parent of path, as a transaction opened now reads it.
ParentDir(path) ==
    ReadDirectory(Tx, FindNode(Tx, SplitPath(path).parent, curr_dir).node_index).dir

\* C22: a create of a path, relative or absolute, whose name is an entry of its
\* parent directory fails with FileExists, and a link to a new path whose name is
\* an entry of its parent directory fails with FileExists when the old path
\* resolves; in both cases the parent directory and the node map are afterwards
\* as they were.
C22_CreateOnlyIfAbsent ==
    [][/\ \A p \in {last'.path} :
            (last'.op = "create" /\ fs.some /\ ~EndsWithSlash(p) /\ NameExists(p))
            => /\ last'.st = "FileExists"
               /\ ParentDir(p)' = ParentDir(p)
               /\ fs'.node_map = fs.node_map
       /\ \A p \in {last'.path} : \A q \in {last'.path2} :
            (/\ last'.op = "link" /\ fs.some /\ NameExists(q)
             /\ FindNode(Tx, p, curr_dir).st = "ok")
            => /\ last'.st = "FileExists"
               /\ ParentDir(q)' = ParentDir(q)
               /\ fs'.node_map = fs.node_map]_vars

\* The entry that rmdir of path looks at: the entry of path's name in path's
\* parent directory, when both are there.
RmdirTarget(path) ==
    \E par \in {FindNode(Tx, SplitPath(path).parent, curr_dir)} :
        /\ par.st = "ok"
        /\ \E d \in {ReadDirectory(Tx, par.node_index)} :
            d.st = "ok" /\ HasEntry(d.dir, SplitPath(path).name)

RmdirEntry(path) == GetEntry(ParentDir(path), SplitPath(path).name)

\* The directory of the entry has an entry besides "." and "..".
HasOtherEntries(entry) ==
    \E d \in {ReadDirectory(Tx, entry.node_index)} :
        /\ d.st = "ok"
        /\ \E i \in DOMAIN d.dir :
            ~EntryIsNull(d.dir[i]) /\ d.dir[i].name \notin {NAME_DOT, NAME_DOTDOT}

\* C23: rmdir of a path that resolves to the root fails with NotPermitted; rmdir
\* of a target whose entry is not a directory, or whose directory has an entry
\* besides "." and "..", fails; and a refused rmdir leaves the device, both
\* bitmaps and so every directory as they were.
C23_RmdirRefusals ==
    [][\A p \in {TrimSlashes(last'.path)} :
        (last'.op = "rmdir" /\ fs.some)
        => /\ \A f \in {FindNode(Tx, p, curr_dir)} :
                (f.st = "ok" /\ f.node_index = ROOT_INDEX) => last'.st = "NotPermitted"
           /\ (/\ FindNode(Tx, p, curr_dir).st = "ok"
               /\ FindNode(Tx, p, curr_dir).node_index # ROOT_INDEX
               /\ RmdirTarget(p)
               /\ \/ RmdirEntry(p).filetype # FT_DIR
                  \/ HasOtherEntries(RmdirEntry(p)))
              => last'.st \notin {"ok", "panic"}
           /\ last'.st # "ok" => (storage' = storage /\ fs' = fs)]_vars

\* A directory with a file inside it has just been refused by rmdir.
C23_RefusedNonEmpty ==
    /\ last.op = "rmdir" /\ last.st = "NotAnEmptyDirectory" /\ last.path = FileA
    /\ RmdirTarget(FileA)
    /\ RmdirEntry(FileA).filetype = FT_DIR
    /\ HasOtherEntries(RmdirEntry(FileA))

\* The node of path is a directory: the root, or a node whose entry in path's
\* parent directory says so (mkdir made it).
IsDirectoryAt(path) ==
    \E f \in {FindNode(Tx, path, curr_dir)} :
        /\ f.st = "ok"
        /\ \/ f.node_index = ROOT_INDEX
           \/ RmdirTarget(path) /\ RmdirEntry(path).filetype = FT_DIR

\* link of old to new reaches link_file: both paths' lookups succeed and the
\* existence check of Kernel::link finds nothing.
ReachesLinkFile(old, new) ==
    /\ fs.some
    /\ FindNode(Tx, old, curr_dir).st = "ok"
    /\ \E par \in {FindNode(Tx, SplitPath(new).parent, curr_dir)} :
        /\ par.st = "ok"
        /\ \E d \in {ReadDirectory(Tx, par.node_index)} :
            d.st = "ok" /\ ~HasEntry(d.dir, PathAsName(new))

\* C24: a link_file whose target node is a directory, the root or one made by
\* mkdir, fails with FileTypeNotLinkable and leaves the target's link_count and
\* the parent directory as they were.
C24_OnlyFilesAreLinked ==
    [][\A p \in {last'.path} : \A q \in {last'.path2} :
        (last'.op = "link" /\ ReachesLinkFile(p, q) /\ IsDirectoryAt(p))
        => \A n \in {FindNode(Tx, p, curr_dir).node_index} :
            /\ last'.st = "FileTypeNotLinkable"
            /\ NodeAt(n)'.link_count = NodeAt(n).link_count
            /\ ParentDir(q)' = ParentDir(q)]_vars

\* The byte at a position of a file, as its node's extents map it: the byte of
\* the mapped block, zero where the logical block is a hole or unmapped.
FileByte(node, pos) ==
    The({ IF pb.st = "ok" /\ pb.some
          THEN ReadBlock(Tx, pb.v).block.c[pos % BLOCK_SIZE]
          ELSE 0 :
          pb \in {GetPhysicalBlock(node, pos \div BLOCK_SIZE)} })

\* C25: a read through an open descriptor at offset off of a file of size size
\* returns 0 bytes when off >= size and otherwise exactly min(buf.len(), size -
\* off) bytes: the file's bytes from off on, zeros where blocks are holes or
\* unmapped; it changes neither the device nor the bitmaps, and the
\* descriptor's offset advances by the count returned.
C25_ShortReadAtEof ==
    [][\A fd \in {last'.fd} :
        (last'.op = "read" /\ fs.some /\ fd \in DOMAIN open_files)
        => \A nd \in {ReadNode(Tx, open_files[fd].node_index)} :
            \A off \in {open_files[fd].offset} :
             \A want \in {IF nd.st # "ok" \/ off >= nd.node.size THEN 0
                          ELSE Min(last'.arg, nd.node.size - off)} :
                nd.st = "ok"
                => /\ last'.st = "ok"
                   /\ last'.n = want
                   /\ Len0(last'.out) = want
                   /\ \A i \in 0..(want - 1) : last'.out[i] = FileByte(nd.node, off + i)
                   /\ storage' = storage
                   /\ fs' = fs
                   /\ open_files' = [open_files EXCEPT ![fd].offset = off + want]]_vars

\* The non-null extents of an extent array, and the logical blocks they cover.
NonNullCount(ex) == Cardinality({i \in DOMAIN ex : ~IsNull(ex[i])})
LogicalLen(ex) ==
    SumTo([i \in DOMAIN ex |-> IF IsNull(ex[i]) THEN 0 ELSE ex[i].end - ex[i].start],
          EXTENTS_PER_NODE)

\* C26: a map_block of the logical block right after the blocks the node covers
\* (the walk reaches the first null extent with offset 0) extends the previous
\* extent by one block and takes no new extent slot when that extent is mapped
\* and ends at the physical block, and otherwise places a new mapped extent of
\* one block; either way the node covers one logical block more and its
\* block_count is one more.
C26_TailMerge ==
    [][\A node \in {NodeAt(UnderTest)} : \A phys \in {last'.n} :
        \A cnt \in {NonNullCount(node.extents)} :
        (/\ last'.op = "map_block"
         /\ last'.arg = LogicalLen(node.extents)
         /\ cnt < EXTENTS_PER_NODE)
        => /\ last'.st = "ok"
           /\ NodeAt(UnderTest)'.extents =
                IF cnt > 0 /\ IsMapped(node.extents[cnt - 1])
                   /\ node.extents[cnt - 1].end = phys
                THEN [node.extents EXCEPT ![cnt - 1].end = phys + 1]
                ELSE [node.extents EXCEPT ![cnt] = [start |-> phys, end |-> phys + 1]]
           /\ LogicalLen(NodeAt(UnderTest)'.extents) = LogicalLen(node.extents) + 1
           /\ NodeBlockCount(NodeAt(UnderTest)').v = NodeBlockCount(node).v + 1]_vars

\* The logical blocks in front of extent i, and the extent a logical block that
\* the node covers falls in.
BlocksBefore(ex, i) ==
    SumTo([j \in DOMAIN ex |-> IF IsNull(ex[j]) THEN 0 ELSE ex[j].end - ex[j].start], i)
ExtentOf(ex, logic) ==
    CHOOSE i \in DOMAIN ex : BlocksBefore(ex, i) <= logic /\ logic < BlocksBefore(ex, i + 1)

\* A hole of length blocks with the block at offset o mapped to phys: the hole
\* in front, the mapped block and the hole behind, without the empty ones.
HoleWithBlock(length, o, phys) ==
    (IF o > 0 THEN <<[start |-> 0, end |-> o]>> ELSE <<>>)
    \o <<[start |-> phys, end |-> phys + 1]>>
    \o (IF length - o - 1 > 0 THEN <<[start |-> 0, end |-> length - o - 1]>> ELSE <<>>)

\* The array ex with the extent at c replaced by the extents of pieces, the
\* extents behind it moved right in their order.
Spliced(ex, c, pieces) ==
    [i \in DOMAIN ex |->
        IF i < c THEN ex[i]
        ELSE IF i < c + Len(pieces) THEN pieces[i - c + 1]
        ELSE ex[i - (Len(pieces) - 1)]]

\* C27: a map_block of a logical block inside a hole of L blocks, at offset o of
\* it, replaces the hole by [hole(o), mapped(phys, phys + 1), hole(L - o - 1)]
\* without the zero-length pieces, the extents behind moved right in their order
\* and the logical length of the node as it was; it fails with OutOfExtents when
\* the non-null extents would be more than EXTENTS_PER_NODE, and with
\* AlreadyMapped when the block is inside a mapped extent, and a failure leaves
\* the extent array as it was.
C27_HoleSplit ==
    [][\A ex \in {NodeAt(UnderTest).extents} : \A logic \in {last'.arg} :
        (last'.op = "map_block" /\ logic < LogicalLen(ex))
        => \A c \in {ExtentOf(ex, logic)} :
            \A pieces \in {HoleWithBlock(ex[c].end, logic - BlocksBefore(ex, c), last'.n)} :
            IF IsMapped(ex[c])
            THEN last'.st = "AlreadyMapped" /\ NodeAt(UnderTest)'.extents = ex
            ELSE IF NonNullCount(ex) + Len(pieces) - 1 > EXTENTS_PER_NODE
            THEN last'.st = "OutOfExtents" /\ NodeAt(UnderTest)'.extents = ex
            ELSE /\ last'.st = "ok"
                 /\ NodeAt(UnderTest)'.extents = Spliced(ex, c, pieces)
                 /\ LogicalLen(NodeAt(UnderTest)'.extents) = LogicalLen(ex)]_vars

\* A block in the middle of a hole has just been mapped: the mapped block stands
\* between the two holes that are left of the hole.
C27_SplitInTheMiddle ==
    /\ last.op = "map_block" /\ last.st = "ok"
    /\ \E i \in 0..(EXTENTS_PER_NODE - 3) :
        /\ IsHole(NodeAt(UnderTest).extents[i])
        /\ NodeAt(UnderTest).extents[i + 1] = [start |-> last.n, end |-> last.n + 1]
        /\ IsHole(NodeAt(UnderTest).extents[i + 2])
        /\ BlocksBefore(NodeAt(UnderTest).extents, i + 1) = last.arg

\* The blocks of the mapped extents of an extent array: no null extent, no hole.
MappedBlocks(ex) ==
    SumTo([i \in DOMAIN ex |-> IF IsMapped(ex[i]) THEN ExtentLen(ex[i]) ELSE 0],
          EXTENTS_PER_NODE) % USIZE_MOD

\* C28: the block_count that stat reports of a node is the sum of end - start
\* over its mapped extents only: holes count nothing, so a node of a hole of k
\* blocks and one mapped block reports 1.
C28_BlockCountSkipsHoles ==
    (last.op = "stat" /\ last.st = "ok")
    => last.stats.block_count = MappedBlocks(NodeAt(last.node).extents)

\* C29: a truncate frees no block for a hole: every block that the call turns
\* from used to free in the block map lay in a mapped extent of the node.
C29_HolesFreeNothing ==
    [][\A n \in {last'.node} :
        (last'.op = "truncate" /\ fs.some /\ n # 0)
        => \A b \in DOMAIN fs.block_map :
            (fs.block_map[b] = USED /\ fs'.block_map[b] = FREE)
            => \E e \in Extents(n) : IsMapped(e) /\ e.start <= b /\ b < e.end]_vars

\* C30: inside a transaction a read_block of a block returns the block that the
\* last write_block of it staged, and the device's block when none was staged; it
\* fails with BlockIndexOutOfBounds only for a block that is not staged and
\* outside the device; and a read_node of a node returns the node that a
\* write_node of it has just staged.
C30_ReadYourWrites ==
    [][/\ last'.op = "write_block"
          => \A i \in {last'.arg} : \A b \in {last'.out} : \A j \in TxBlocks :
                ReadBlock(TxOpen, j)' =
                    IF j = i THEN [st |-> "ok", block |-> b] ELSE ReadBlock(TxOpen, j)
       /\ last'.op = "commit"
          => \A j \in TxBlocks :
                ReadBlock(TxOpen, j)'.st =
                    IF j \in DOMAIN storage' THEN "ok" ELSE "BlockIndexOutOfBounds"
       /\ last'.op = "read_block"
          => \A j \in {last'.arg} :
                /\ [st |-> last'.st, block |-> last'.out] = ReadBlock(TxOpen, j)
                /\ last'.st \in {"ok", "BlockIndexOutOfBounds"}
                /\ last'.st = "BlockIndexOutOfBounds"
                   <=> (j \notin DOMAIN tx_changes /\ j \notin DOMAIN storage)
                /\ (j \notin DOMAIN tx_changes /\ j \in DOMAIN storage)
                   => last'.out = storage[j]
       /\ (last'.op = "write_node" /\ last'.st = "ok")
          => \A n \in {last'.node} : \A x \in {last'.out} :
                ReadNode(TxOpen, n)' = [st |-> "ok", node |-> x]]_vars

\* A block staged over a block of the device has just been read back, the
\* device still holding another block.
C30_ReadStagedBlock ==
    /\ last.op = "read_block" /\ last.st = "ok"
    /\ last.arg \in DOMAIN tx_changes
    /\ last.arg \in DOMAIN storage
    /\ last.out = tx_changes[last.arg]
    /\ last.out # storage[last.arg]

\* The block that holds the flags of a map from flag i * BLOCK_SIZE on, and the
\* blocks that a commit of the open transaction has staged when its flush
\* begins: the map blocks that differ from what the transaction reads, over the
\* blocks staged before.
MapChunk(map, i) ==
    [k \in 0..(BLOCK_SIZE - 1) |->
        IF i * BLOCK_SIZE + k < Len0(map) THEN map[i * BLOCK_SIZE + k] ELSE 0]
MapBlocks(map, map_offset) ==
    {map_offset + i : i \in {i \in 0..Len0(map) : i * BLOCK_SIZE < Len0(map)}}
StagedMap(j) ==
    IF j \in MapBlocks(fs.node_map, fs.superblock.node_map_offset)
    THEN CellBlock(MapChunk(fs.node_map, j - fs.superblock.node_map_offset))
    ELSE CellBlock(MapChunk(fs.block_map, j - fs.superblock.block_map_offset))
StagedAtFlush ==
    LET maps == MapBlocks(fs.block_map, fs.superblock.block_map_offset)
                \cup MapBlocks(fs.node_map, fs.superblock.node_map_offset)
        synced == {j \in maps : ReadBlock(TxOpen, j).block # StagedMap(j)}
    IN [j \in synced \cup DOMAIN tx_changes |->
            IF j \in synced THEN StagedMap(j) ELSE tx_changes[j]]

\* C31: a commit stages the blocks of the allocation maps first and then
\* flushes every staged block, in ascending order of block index: after it the
\* device holds the staged block at every staged index and is unchanged at every
\* other index, and when the flush aborts at an index outside the device, every
\* staged block below that index is on the device.
C31_CommitOrder ==
    [][last'.op = "commit"
        => \A staged \in {StagedAtFlush} :
            /\ last'.st = "ok" <=> DOMAIN staged \subseteq DOMAIN storage
            /\ \A j \in DOMAIN storage :
                storage'[j] =
                    IF j \in DOMAIN staged
                       /\ \A k \in DOMAIN staged \ DOMAIN storage : j < k
                    THEN staged[j] ELSE storage[j]
            /\ DOMAIN storage' = DOMAIN storage]_vars

\* A commit has just flushed a block of the block map that an allocation had
\* changed in memory, and a staged data block with it.
C31_FlushedMapAndData ==
    /\ last.op = "commit" /\ last.st = "ok" /\ last.staged >= 1
    /\ steps = MaxTxSteps
    /\ storage[fs.superblock.block_map_offset + 1]
        # Format(StorageNew, BlockCount, NodeCount).storage[fs.superblock.block_map_offset + 1]
    /\ storage[fs.superblock.data_offset] \in TxBlockValues

\* The device holds the allocation maps as the filesystem has them in memory.
MapsPersisted ==
    \A j \in MapBlocks(fs.block_map, fs.superblock.block_map_offset)
             \cup MapBlocks(fs.node_map, fs.superblock.node_map_offset) :
        j \in DOMAIN storage /\ storage[j] = StagedMap(j)

\* C32: a commit stages a block of an allocation map only when the chunk in
\* memory differs from the block persisted: a stat, ls, open, read or cd, which
\* stage no block and change no map, begun with the maps in memory equal to the
\* maps on the device, flush no block and leave the device as it was.
C32_NoSuperfluousMapWrites ==
    [][(/\ last'.op \in {"stat", "ls", "open", "read", "cd"}
        /\ fs.some
        /\ MapsPersisted)
       => /\ last'.staged = 0
          /\ last'.flushed = 0
          /\ storage' = storage
          /\ fs' = fs]_vars

\* A stat has just committed its transaction without a block to flush.
C32_StatFlushedNothing ==
    /\ last.op = "stat" /\ last.st = "ok" /\ last.committed /\ last.flushed = 0
    /\ fs.some /\ MapsPersisted

\* C33: an append_hole of count >= 1 blocks extends the last extent by count
\* when it is a hole, also when every extent of the node is in use, and
\* otherwise writes a hole of count blocks into the first null extent; the node
\* then covers count logical blocks more and every logical block it covered
\* resolves as before; it fails with OutOfExtents only when no extent is null
\* and the last one is not a hole.
C33_AppendHole ==
    [][\A node \in {NodeAt(UnderTest)} : \A count \in {last'.arg} :
        \A cnt \in {NonNullCount(node.extents)} :
        (last'.op = "append_hole" /\ count >= 1)
        => IF cnt > 0 /\ IsHole(node.extents[cnt - 1])
           THEN /\ last'.st = "ok"
                /\ NodeAt(UnderTest)'.extents =
                        [node.extents EXCEPT ![cnt - 1].end = @ + count]
                /\ LogicalLen(NodeAt(UnderTest)'.extents)
                    = LogicalLen(node.extents) + count
                /\ \A l \in 0..(LogicalLen(node.extents) - 1) :
                    GetPhysicalBlock(NodeAt(UnderTest)', l) = GetPhysicalBlock(node, l)
           ELSE IF cnt < EXTENTS_PER_NODE
           THEN /\ last'.st = "ok"
                /\ NodeAt(UnderTest)'.extents =
                        [node.extents EXCEPT ![cnt] = [start |-> 0, end |-> count]]
                /\ LogicalLen(NodeAt(UnderTest)'.extents)
                    = LogicalLen(node.extents) + count
                /\ \A l \in 0..(LogicalLen(node.extents) - 1) :
                    GetPhysicalBlock(NodeAt(UnderTest)', l) = GetPhysicalBlock(node, l)
           ELSE /\ last'.st = "OutOfExtents"
                /\ NodeAt(UnderTest)'.extents = node.extents]_vars

\* C34: after a map_block(logic, phys) that succeeds the logical block logic
\* resolves to phys, and every other logical block resolves as before the call:
\* no other logical block becomes mapped.
C34_MapBlockFrame ==
    [][\A node \in {NodeAt(UnderTest)} : \A logic \in {last'.arg} :
        (last'.op = "map_block" /\ last'.st = "ok")
        => /\ GetPhysicalBlock(NodeAt(UnderTest)', logic)
                = [st |-> "ok", some |-> TRUE, v |-> last'.n]
           /\ \A l \in 0..(MaxLogic + 2) :
                l # logic
                => GetPhysicalBlock(NodeAt(UnderTest)', l) = GetPhysicalBlock(node, l)]_vars

\* The physical blocks that a mapped extent covers.
Covers(e, b) == IsMapped(e) /\ e.start <= b /\ b < e.end

\* C35: whatever calls were made, no physical block is covered by two mapped
\* extents, be they two extents of one node or extents of two nodes that are
\* Used in the node map.
C35_NoSharedDataBlock ==
    (fs.some /\ fs.superblock # ZeroSuperblock)
    => \A n, m \in {k \in 0..(NodeCount - 1) : IsUsed(fs.node_map, k)} :
        \A en \in {NodeAt(n).extents} : \A em \in {NodeAt(m).extents} :
            \A i, j \in 0..(EXTENTS_PER_NODE - 1) :
                (n # m \/ i # j)
                => \A b \in DOMAIN fs.block_map : ~(Covers(en[i], b) /\ Covers(em[j], b))


\* The directories of the mounted filesystem: the root, and the nodes that the
\* entries of a directory, other than . and .., give as directories.
DirNodes ==
    {ROOT_INDEX} \cup SubDirs(ROOT_INDEX)
                 \cup UNION {SubDirs(d) : d \in SubDirs(ROOT_INDEX)}

\* The number of entries of directory d, tombstones apart, that name node n.
EntriesOn(d, n) ==
    Cardinality({i \in DOMAIN ReadDirectory(Tx, d).dir :
                    /\ ~EntryIsNull(ReadDirectory(Tx, d).dir[i])
                    /\ ReadDirectory(Tx, d).dir[i].node_index = n})

RECURSIVE SumEntriesOn(_, _)
SumEntriesOn(dirs, n) ==
    IF dirs = {} THEN 0
    ELSE EntriesOn(CHOOSE d \in dirs : TRUE, n)
         + SumEntriesOn(dirs \ {CHOOSE d \in dirs : TRUE}, n)

\* C36: while a filesystem of a format is mounted and the program runs, the link
\* count of every Used node of type File is the number of entries, tombstones
\* apart and over all directories, that name the node, and is never below 0 nor
\* wrapped around.
C36_LinkCountMatchesEntries ==
    (fs.some /\ fs.superblock # ZeroSuperblock /\ ~halted)
    => \A n \in {k \in 1..(NodeCount - 1) : IsUsed(fs.node_map, k)} :
        NodeAt(n).filetype = FT_FILE
        => /\ NodeAt(n).link_count = SumEntriesOn(DirNodes, n)
           /\ NodeAt(n).link_count <= NodeCount * NodeCount


\* C37: while a filesystem of a format is mounted and the program runs, no two
\* entries of a directory, tombstones apart, have the same name.
C37_UniqueNames ==
    (fs.some /\ fs.superblock # ZeroSuperblock /\ ~halted)
    => \A d \in DirNodes :
        \A dir \in {ReadDirectory(Tx, d).dir} :
            \A i, j \in DOMAIN dir :
                (i # j /\ ~EntryIsNull(dir[i]) /\ ~EntryIsNull(dir[j]))
                => dir[i].name # dir[j].name


\* C38: while a filesystem of a format is mounted and the program runs, the node of every
\* open file description is Used in the node map of the mounted filesystem; as
\* every syscall is one step, a node that is Used in every state was not deleted
\* and created again while the description was open.
C38_OpenDescriptorsStayValid ==
    (fs.some /\ fs.superblock # ZeroSuperblock /\ ~halted)
    => \A fd \in DOMAIN open_files : IsUsed(fs.node_map, open_files[fd].node_index)


\* C39: while a filesystem of a format is mounted and the program runs, the
\* current directory is a node that is Used in the node map and whose record is
\* of type Dir.
C39_CurrentDirectoryStaysValid ==
    (fs.some /\ fs.superblock # ZeroSuperblock /\ ~halted)
    => /\ IsUsed(fs.node_map, curr_dir)
       /\ NodeAt(curr_dir).filetype = FT_DIR

====
